---- MODULE Spec2Model ----
(***************************************************************************)
(* Subscription lifecycle and payment-webhook state machine of the         *)
(* church_directory app: checkout (views._process_checkout), the webhook   *)
(* endpoint (views.stripe_webhook), the reconciliation engine              *)
(* (StripeService.handle_webhook_event and its eight handlers), the        *)
(* cancellation views and the provisioning hand-off.                       *)
(*                                                                         *)
(* The database is modelled table by table: a table is a sequence of rows, *)
(* a row's primary key is its index.  Time is a counter of months; 0 is a  *)
(* NULL date.  Blank CharFields ('') and NULL foreign keys are 0.          *)
(***************************************************************************)
EXTENDS Integers, Sequences, FiniteSets, TLC

\* ------------------------------------------------------------------ bounds
MaxSubs   == 1      \* Subscription rows a run creates
MaxEvents == 1      \* distinct gateway event ids
MaxTime   == 2      \* the clock runs 1..MaxTime
MaxCoupon == 1      \* Coupon rows (each starts with used_count 0)
MaxReplay == 3      \* gateway events about one Checkout Session
MaxHandoffs == 2    \* provisioning requests handed off per Subscription

Emails == {"a@x"}
BillingPeriods == {"monthly", "annual"}
SubIds == 1..MaxSubs
EventIds == 1..MaxEvents
CouponIds == 1..MaxCoupon

\* Subscription.STATUS_CHOICES
STATUS_CHOICES ==
  {"pending", "processing", "active", "cancelled", "expired", "suspended", "failed"}

\* StripeService.VALID_STATUS_TRANSITIONS
VALID_STATUS_TRANSITIONS ==
  [s \in STATUS_CHOICES |->
     CASE s = "pending"    -> {"processing", "active", "expired", "failed", "cancelled"}
       [] s = "processing" -> {"active", "expired", "failed", "cancelled"}
       [] s = "active"     -> {"cancelled", "suspended"}
       [] s = "expired"    -> {}
       [] s = "failed"     -> {"active"}
       [] s = "cancelled"  -> {}
       [] s = "suspended"  -> {"active", "cancelled"}]

\* StripeService._validate_status_transition
_validate_status_transition(current_status, new_status) ==
  IF current_status = new_status THEN TRUE
  ELSE new_status \in VALID_STATUS_TRANSITIONS[current_status]

\* The eight event types handle_webhook_event dispatches on, and one it does not.
HandledTypes ==
  {"checkout.session.completed", "checkout.session.expired",
   "payment_intent.succeeded", "payment_intent.payment_failed",
   "invoice.payment_succeeded", "invoice.payment_failed",
   "customer.subscription.updated", "customer.subscription.deleted"}
EventTypes == HandledTypes \cup {"customer.subscription.created"}

\* Gateway-side subscription statuses carried by customer.subscription.updated
StripeStatuses == {"active", "canceled", "past_due", "incomplete", "trialing"}

\* relativedelta(years=1) / relativedelta(months=1), in months
PeriodLength(billing_period) == IF billing_period = "annual" THEN 12 ELSE 1

VARIABLES
  subscriptions,    \* table Subscription
  coupons,          \* table Coupon: used_count per coupon id
  payment_intents,  \* table PaymentIntent (the Checkout Session shadow)
  webhook_events,   \* table WebhookEvent
  task_queue,       \* queued create_backend_organization_task runs
  handoffs,         \* provisioning requests handed off so far, per Subscription id
  now,              \* timezone.now()
  last,             \* the request being answered (NoRequest between requests)
  pc                \* the in-flight requests of the concurrent specifications

vars == <<subscriptions, coupons, payment_intents, webhook_events, task_queue,
          handoffs, now, last, pc>>

\* The tables as one value, so that a handler is a function from database to database.
DB == [subscriptions |-> subscriptions, coupons |-> coupons,
       payment_intents |-> payment_intents, webhook_events |-> webhook_events,
       task_queue |-> task_queue, handoffs |-> handoffs]

SetDB(db) ==
  /\ subscriptions' = db.subscriptions
  /\ coupons' = db.coupons
  /\ payment_intents' = db.payment_intents
  /\ webhook_events' = db.webhook_events
  /\ task_queue' = db.task_queue
  /\ handoffs' = db.handoffs

\* A variant of SaveSub that writes the row to every Subscription of the table
SaveAll(db, sid, row) ==
  [db EXCEPT !.subscriptions = [i \in DOMAIN db.subscriptions |-> row]]

\* Model.save() of one Subscription row
SaveSub(db, sid, row) ==
  [db EXCEPT !.subscriptions = [db.subscriptions EXCEPT ![sid] = row]]

\* Model.save() of one WebhookEvent row
SaveEvent(db, k, row) ==
  [db EXCEPT !.webhook_events = [db.webhook_events EXCEPT ![k] = row]]

\* Variant of MarkProcessed that sets the flag and leaves processed_at unset
MarkProcessedNoTimestamp(db, k, we, t) ==
  SaveEvent(db, k, [we EXCEPT !.processed = TRUE])

\* webhook_event.processed = True; processed_at = timezone.now(); save()
MarkProcessed(db, k, we, t) ==
  SaveEvent(db, k, [we EXCEPT !.processed = TRUE, !.processed_at = t])

\* webhook_event.processing_error = str(e); save()
RecordError(db, k, we) ==
  SaveEvent(db, k, [we EXCEPT !.processing_error = TRUE])

\* PaymentIntent.objects.get(stripe_payment_intent_id=x): the matching row keys
PIByStripeId(db, x) ==
  {i \in DOMAIN db.payment_intents : db.payment_intents[i].stripe_payment_intent_id = x}

\* local_pi.status = st; local_pi.save()  (PaymentIntent.DoesNotExist is logged)
SetPIStatus(db, x, st) ==
  IF PIByStripeId(db, x) = {} THEN db
  ELSE LET i == CHOOSE j \in PIByStripeId(db, x) : TRUE
       IN [db EXCEPT !.payment_intents[i].status = st]

\* Subscription.objects.get(stripe_subscription_id=x): the matching row keys
SubsByStripeSub(db, x) ==
  {i \in DOMAIN db.subscriptions : db.subscriptions[i].stripe_subscription_id = x}

\* Subscription.objects.get(stripe_subscription_id=x); a NULL or unknown id matches
\* no row
LookupStripeSub(db, x) == IF x = 0 THEN {} ELSE SubsByStripeSub(db, x)

\* The activation with the period of a monthly plan whatever the billing period
ActivateForOneMonth(sub, t) ==
  [sub EXCEPT !.status = "active",
              !.start_date = t,
              !.end_date = t + 1,
              !.next_billing_date = t + 1]

\* status = 'active'; start_date = activation_time; end_date and next_billing_date
\* one period later (stripe_service.py 376-395, 545-560)
Activate(sub, t) ==
  [sub EXCEPT !.status = "active",
              !.start_date = t,
              !.end_date = t + PeriodLength(sub.billing_period),
              !.next_billing_date = t + PeriodLength(sub.billing_period)]

\* What the backend answers to the organization-create request:
\*   ok      200/201 with a JSON object carrying organization_id and tenant_slug
\*   fail    another status code, a timeout or a connection error
\*           (_make_request returns False)
\*   raise   200/201 with JSON that is no object: response_data.get raises
\*           before anything is written
\*   no_ids  200/201 with a body that is not JSON, or a JSON object without the
\*           ids (_make_request returns True): organization_id is None, and
\*           saving None to the non-null column raises IntegrityError
BackendAnswers == {"ok", "fail", "raise", "no_ids"}

\* create_organization from the request on (93-131) for the backend's answer:
\* ret is the success flag returned; error tells how the call ended otherwise
\* ("exception": raised outside the database, "db_error": save() raised).
\* backend_integration_data is no field of the model, so the response, and with
\* it the error, is not stored: backend_integration_error is left as it was.
CallBackend(db, sid, answer) ==
  CASE answer = "ok" ->
         [db |-> [db EXCEPT !.subscriptions[sid].backend_integration_status = "completed",
                            !.subscriptions[sid].backend_organization_id = sid,
                            !.subscriptions[sid].backend_tenant_slug = sid],
          ret |-> TRUE, error |-> "none", requested |-> TRUE,
          organization_id |-> sid, tenant_slug |-> sid]
    [] answer = "fail" ->
         [db |-> [db EXCEPT !.subscriptions[sid].backend_integration_status = "failed"],
          ret |-> FALSE, error |-> "none", requested |-> TRUE,
          organization_id |-> 0, tenant_slug |-> 0]
    [] answer = "raise" ->
         [db |-> db, ret |-> FALSE, error |-> "exception", requested |-> TRUE,
          organization_id |-> 0, tenant_slug |-> 0]
    [] OTHER ->
         [db |-> db, ret |-> FALSE, error |-> "db_error", requested |-> TRUE,
          organization_id |-> 0, tenant_slug |-> 0]

\* create_organization without its already-completed check (85-91)
CreateWithoutCheck(db, sid, answer) == CallBackend(db, sid, answer)

\* BackendApiService.create_organization(subscription); requested tells whether
\* _make_request was called
create_organization(db, sid, answer) ==
  IF db.subscriptions[sid].backend_integration_status = "completed"
  THEN [db |-> db, ret |-> TRUE, error |-> "none", requested |-> FALSE,
        organization_id |-> db.subscriptions[sid].backend_organization_id,
        tenant_slug |-> db.subscriptions[sid].backend_tenant_slug]
  ELSE CallBackend(db, sid, answer)

\* What one run of a handler meets in its environment:
\*   raises   an exception inside the handler's try block, before any write
\*   handoff  what handing the provisioning task off does: "queued" (.delay
\*            returns), "enqueue_error" (.delay raises), "import_error" (the task
\*            module cannot be imported: the inline fall back is taken)
\*   backend  the backend's answer to an inline create_organization call
Handoffs == {"queued", "enqueue_error", "import_error"}
Envs ==
  {[raises |-> TRUE, handoff |-> "queued", backend |-> "ok"]}
  \cup [raises : {FALSE}, handoff : {"import_error"}, backend : BackendAnswers]
  \cup {[raises |-> FALSE, handoff |-> "queued", backend |-> "ok"]}
  \cup {[raises |-> FALSE, handoff |-> "enqueue_error", backend |-> "ok"]}

\* The inline provisioning call shared by both activation handlers (442-456,
\* 581-597): the integration status is already pending.  An exception of
\* create_organization is caught and the status saved as failed; when the
\* exception came from save() the transaction is marked for rollback, so that
\* this save raises in turn (ok = FALSE: the exception leaves the hand-off)
CaughtInline(c, sid) ==
  CASE c.error = "none" ->
         [db |-> [c.db EXCEPT !.handoffs[sid] = @ + 1], ok |-> TRUE]
    [] c.error = "exception" ->
         [db |-> [c.db EXCEPT !.handoffs[sid] = @ + 1,
                              !.subscriptions[sid].backend_integration_status = "failed"],
          ok |-> TRUE]
    [] OTHER -> [db |-> [c.db EXCEPT !.handoffs[sid] = @ + 1], ok |-> FALSE]

InlineProvision(db, sid, env) ==
  CaughtInline(create_organization(db, sid, env.backend), sid)

\* Variant of HandOffCheckout that hands off whatever the integration status
HandOffAlways(db, sid, env) ==
  [db |-> [db EXCEPT !.subscriptions[sid].backend_integration_status = "pending",
                     !.task_queue = @ \cup {[sub |-> sid, retries |-> 0]},
                     !.handoffs[sid] = @ + 1],
   ok |-> TRUE]

\* The provisioning hand-off of _handle_checkout_session_completed (419-458),
\* entered with the Subscription already saved as active.  ok = FALSE is an
\* exception leaving the handler's inner transaction.atomic() block.
HandOffCheckout(db, sid, env) ==
  IF db.subscriptions[sid].backend_integration_status \notin {"not_started", "failed"}
  THEN [db |-> db, ok |-> TRUE]
  ELSE LET d1 == [db EXCEPT !.subscriptions[sid].backend_integration_status = "pending"]
       IN CASE env.handoff = "queued" ->
                 [db |-> [d1 EXCEPT !.task_queue = @ \cup {[sub |-> sid, retries |-> 0]},
                                    !.handoffs[sid] = @ + 1],
                  ok |-> TRUE]
            [] env.handoff = "enqueue_error" -> [db |-> d1, ok |-> FALSE]
            [] OTHER -> InlineProvision(d1, sid, env)

\* The idempotency check of the activation handlers (361, 530)
AlreadyActivated(sub) == sub.status = "active" /\ sub.start_date # 0

\* The end of _handle_checkout_session_completed (460-473) once the hand-off h
\* is over, db being the database the handler began with: when the hand-off
\* raised, the inner atomic block is rolled back and the error is recorded
AfterHandOffCheckout(db, h, sid, k, t) ==
  IF h.ok
  THEN [db |-> MarkProcessed(h.db, k, [db.webhook_events[k] EXCEPT !.subscription = sid], t),
        ret |-> TRUE, raised |-> FALSE]
  ELSE [db |-> RecordError([db EXCEPT !.handoffs = h.db.handoffs], k,
                           [db.webhook_events[k] EXCEPT !.subscription = sid]),
        ret |-> FALSE, raised |-> FALSE]

\* StripeService._handle_checkout_session_completed(event, webhook_event);
\* k is the WebhookEvent row, t the clock
_handle_checkout_session_completed(db, event, k, t, env) ==
  LET we == db.webhook_events[k]
      sid == event.obj
      session_id == <<"cs", event.obj>>
  IN IF env.raises THEN [db |-> RecordError(db, k, we), ret |-> FALSE, raised |-> FALSE]
     ELSE IF sid = 0 \/ sid \notin DOMAIN db.subscriptions
     THEN [db |-> MarkProcessed(db, k, we, t), ret |-> TRUE, raised |-> FALSE]
     ELSE LET sub == db.subscriptions[sid] IN
       IF AlreadyActivated(sub)
       THEN [db |-> MarkProcessed(db, k, we, t), ret |-> TRUE, raised |-> FALSE]
       ELSE IF ~_validate_status_transition(sub.status, "active")
       THEN [db |-> MarkProcessed(db, k, we, t), ret |-> TRUE, raised |-> FALSE]
       ELSE AfterHandOffCheckout(
              db,
              HandOffCheckout(
                SetPIStatus(SaveSub(db, sid, Activate(sub, t)), session_id, "completed"),
                sid, env),
              sid, k, t)

\* StripeService._handle_checkout_session_expired
_handle_checkout_session_expired(db, event, k, t, env) ==
  LET we == db.webhook_events[k]
      sid == event.obj
      session_id == <<"cs", event.obj>>
  IN IF env.raises THEN [db |-> RecordError(db, k, we), ret |-> FALSE, raised |-> FALSE]
     ELSE LET found == sid # 0 /\ sid \in DOMAIN db.subscriptions
              d1 == IF found
                    THEN SaveSub(db, sid, [db.subscriptions[sid] EXCEPT !.status = "expired"])
                    ELSE db
              d2 == SetPIStatus(d1, session_id, "expired")
              linked == IF found THEN [we EXCEPT !.subscription = sid] ELSE we
          IN [db |-> MarkProcessed(d2, k, linked, t), ret |-> TRUE, raised |-> FALSE]

\* The inline provisioning of _handle_payment_intent_succeeded (568-599): no task
\* queue here, create_organization is called in the handler itself
HandOffPaymentIntent(db, sid, env) ==
  IF db.subscriptions[sid].backend_integration_status \notin {"not_started", "failed"}
  THEN [db |-> db, ok |-> TRUE]
  ELSE InlineProvision(
         [db EXCEPT !.subscriptions[sid].backend_integration_status = "pending"], sid, env)

\* The local PaymentIntent update of _handle_payment_intent_succeeded (604-626):
\* by payment intent id, else the Subscription's first shadow row is re-keyed
UpdatePIForPaymentIntent(db, sid, payment_intent_id, st) ==
  IF PIByStripeId(db, payment_intent_id) # {}
  THEN SetPIStatus(db, payment_intent_id, st)
  ELSE IF sid = 0 \/ sid \notin DOMAIN db.subscriptions THEN db
  ELSE LET mine == {i \in DOMAIN db.payment_intents : db.payment_intents[i].subscription = sid}
       IN IF mine = {} THEN db
          ELSE LET i == CHOOSE j \in mine : \A j2 \in mine : j >= j2
               IN [db EXCEPT !.payment_intents[i].stripe_payment_intent_id = payment_intent_id,
                             !.payment_intents[i].status = st]

\* The end of _handle_payment_intent_succeeded (601-638) once the provisioning
\* step h is over, db being the database the handler began with.  There is no
\* savepoint here: when the step raised, webhook_event.save() of the except
\* clause (636-637) raises too, and the exception leaves the handler.
AfterHandOffPaymentIntent(db, h, sid, payment_intent_id, k, t) ==
  IF h.ok
  THEN [db |-> MarkProcessed(
                 UpdatePIForPaymentIntent(h.db, sid, payment_intent_id, "succeeded"),
                 k, [db.webhook_events[k] EXCEPT !.subscription = sid], t),
        ret |-> TRUE, raised |-> FALSE]
  ELSE [db |-> [db EXCEPT !.handoffs = h.db.handoffs], ret |-> FALSE, raised |-> TRUE]

\* StripeService._handle_payment_intent_succeeded
_handle_payment_intent_succeeded(db, event, k, t, env) ==
  LET we == db.webhook_events[k]
      sid == event.obj
      payment_intent_id == <<"pi", event.obj>>
  IN IF env.raises THEN [db |-> RecordError(db, k, we), ret |-> FALSE, raised |-> FALSE]
     ELSE IF sid = 0 \/ sid \notin DOMAIN db.subscriptions
     THEN [db |-> MarkProcessed(UpdatePIForPaymentIntent(db, sid, payment_intent_id, "succeeded"),
                                k, we, t),
           ret |-> TRUE, raised |-> FALSE]
     ELSE LET sub == db.subscriptions[sid] IN
       IF AlreadyActivated(sub)
       THEN [db |-> MarkProcessed(db, k, we, t), ret |-> TRUE, raised |-> FALSE]
       ELSE IF sub.status \notin {"pending", "processing"}
       THEN [db |-> MarkProcessed(db, k, we, t), ret |-> TRUE, raised |-> FALSE]
       ELSE AfterHandOffPaymentIntent(
              db, HandOffPaymentIntent(SaveSub(db, sid, Activate(sub, t)), sid, env),
              sid, payment_intent_id, k, t)

\* StripeService._handle_payment_intent_failed
_handle_payment_intent_failed(db, event, k, t, env) ==
  LET we == db.webhook_events[k]
      sid == event.obj
      payment_intent_id == <<"pi", event.obj>>
  IN IF env.raises THEN [db |-> RecordError(db, k, we), ret |-> FALSE, raised |-> FALSE]
     ELSE LET found == sid # 0 /\ sid \in DOMAIN db.subscriptions
              d1 == IF found
                    THEN SaveSub(db, sid, [db.subscriptions[sid] EXCEPT !.status = "failed"])
                    ELSE db
              d2 == SetPIStatus(d1, payment_intent_id, "requires_payment_method")
              linked == IF found THEN [we EXCEPT !.subscription = sid] ELSE we
          IN [db |-> MarkProcessed(d2, k, linked, t), ret |-> TRUE, raised |-> FALSE]

\* The common shape of the four handlers that find the Subscription by the
\* gateway subscription id: the row found is saved as updated[sid], none found is
\* logged.  More than one match (MultipleObjectsReturned) is an exception in the
\* try block.
ByStripeSub(db, event, k, t, env, updated) ==
  LET we == db.webhook_events[k]
      hits == LookupStripeSub(db, event.obj)
  IN IF env.raises \/ Cardinality(hits) > 1
     THEN [db |-> RecordError(db, k, we), ret |-> FALSE, raised |-> FALSE]
     ELSE IF hits = {} THEN [db |-> MarkProcessed(db, k, we, t), ret |-> TRUE, raised |-> FALSE]
     ELSE LET sid == CHOOSE i \in hits : TRUE
              d1 == SaveSub(db, sid, updated[sid])
          IN [db |-> MarkProcessed(d1, k, [we EXCEPT !.subscription = sid], t),
              ret |-> TRUE, raised |-> FALSE]

\* StripeService._handle_invoice_payment_succeeded
_handle_invoice_payment_succeeded(db, event, k, t, env) ==
  ByStripeSub(db, event, k, t, env,
    [sid \in DOMAIN db.subscriptions |->
       [db.subscriptions[sid] EXCEPT
          !.status = "active",
          !.next_billing_date = t + PeriodLength(db.subscriptions[sid].billing_period)]])

\* StripeService._handle_invoice_payment_failed
_handle_invoice_payment_failed(db, event, k, t, env) ==
  ByStripeSub(db, event, k, t, env,
    [sid \in DOMAIN db.subscriptions |->
       [db.subscriptions[sid] EXCEPT !.status = "failed"]])

\* A variant of the mapping that treats every gateway status it does not know
\* as a failure
MapUnknownToFailed(stripe_status, current) ==
  CASE stripe_status = "active"     -> "active"
    [] stripe_status = "canceled"   -> "cancelled"
    [] stripe_status = "incomplete" -> "processing"
    [] OTHER -> "failed"

\* The status mapping of _handle_subscription_updated (766-774)
MapStripeStatus(stripe_status, current) ==
  CASE stripe_status = "active"     -> "active"
    [] stripe_status = "canceled"   -> "cancelled"
    [] stripe_status = "past_due"   -> "failed"
    [] stripe_status = "incomplete" -> "processing"
    [] OTHER -> current

\* StripeService._handle_subscription_updated
_handle_subscription_updated(db, event, k, t, env) ==
  ByStripeSub(db, event, k, t, env,
    [sid \in DOMAIN db.subscriptions |->
       [db.subscriptions[sid] EXCEPT
          !.status = MapStripeStatus(event.stripe_status, @)]])

\* StripeService._handle_subscription_deleted
_handle_subscription_deleted(db, event, k, t, env) ==
  ByStripeSub(db, event, k, t, env,
    [sid \in DOMAIN db.subscriptions |->
       [db.subscriptions[sid] EXCEPT !.status = "cancelled", !.end_date = t]])

\* The dispatch of handle_webhook_event (299-322) on event_type
Dispatch(db, event, k, t, env) ==
  CASE event.type = "checkout.session.completed" ->
         _handle_checkout_session_completed(db, event, k, t, env)
    [] event.type = "checkout.session.expired" ->
         _handle_checkout_session_expired(db, event, k, t, env)
    [] event.type = "payment_intent.succeeded" ->
         _handle_payment_intent_succeeded(db, event, k, t, env)
    [] event.type = "payment_intent.payment_failed" ->
         _handle_payment_intent_failed(db, event, k, t, env)
    [] event.type = "invoice.payment_succeeded" ->
         _handle_invoice_payment_succeeded(db, event, k, t, env)
    [] event.type = "invoice.payment_failed" ->
         _handle_invoice_payment_failed(db, event, k, t, env)
    [] event.type = "customer.subscription.updated" ->
         _handle_subscription_updated(db, event, k, t, env)
    [] event.type = "customer.subscription.deleted" ->
         _handle_subscription_deleted(db, event, k, t, env)
    [] OTHER ->
         [db |-> MarkProcessed(db, k, db.webhook_events[k], t), ret |-> TRUE, raised |-> FALSE]

\* WebhookEvent.objects.filter(stripe_event_id=id): the matching row keys
EventRows(db, id) ==
  {k \in DOMAIN db.webhook_events : db.webhook_events[k].stripe_event_id = id}

\* WebhookEvent.objects.create(stripe_event_id=..., event_type=..., event_data=event,
\* processed=False)
NewEventRow(event) ==
  [stripe_event_id |-> event.id, event_type |-> event.type, event_data |-> event,
   processed |-> FALSE, processed_at |-> 0, processing_error |-> FALSE,
   subscription |-> 0]

\* A variant of the already-processed check that never skips.
IsProcessedNever(we) == FALSE

\* The already-processed check of handle_webhook_event (292)
IsProcessed(we) == we.processed

\* The end of the atomic block (324-330) for the handler's outcome h
DoubleCheck(h, k, t) ==
  [db |-> IF h.ret /\ ~h.db.webhook_events[k].processed
          THEN MarkProcessed(h.db, k, h.db.webhook_events[k], t)
          ELSE h.db,
   result |-> IF h.raised THEN "rolled_back"
              ELSE IF h.ret THEN "success" ELSE "failure",
   ran |-> TRUE]

\* handle_webhook_event from the already-processed check on (291-329), with the
\* WebhookEvent row k in hand: result is "success" (True), "failure" (False) or
\* "rolled_back" (an exception left the handler and the atomic block: db is then
\* what outlives the rollback, the requests already sent to the backend); ran
\* tells whether a type-specific handler (or the unknown-type branch) was entered
HandleRow(db, event, k, t, env) ==
  IF IsProcessed(db.webhook_events[k])
  THEN [db |-> db, result |-> "success", ran |-> FALSE]
  ELSE DoubleCheck(Dispatch(db, event, k, t, env), k, t)

\* The except clause of handle_webhook_event (332-341) once the atomic block is
\* rolled back to db: the committed row, if there is one, gets the error
ExceptClause(db, id, ran) ==
  LET rows == EventRows(db, id) IN
  IF rows = {} THEN [db |-> db, result |-> "failure", ran |-> ran]
  ELSE IF Cardinality(rows) > 1 THEN [db |-> db, result |-> "raise", ran |-> ran]
  ELSE LET k == CHOOSE r \in rows : TRUE
       IN [db |-> RecordError(db, k, db.webhook_events[k]),
           result |-> "failure", ran |-> ran]

\* What a rolled back atomic block leaves of the database db it began with, when
\* it went as far as d: the requests sent to the backend cannot be taken back
RolledBack(db, d) == [db EXCEPT !.handoffs = d.handoffs]

\* The outcome of handle_webhook_event once its atomic block, begun on db, has
\* ended as r: committed, or rolled back and followed by the except clause
AfterAtomic(db, r, id) ==
  IF r.result = "rolled_back"
  THEN ExceptClause(RolledBack(db, r.db), id, TRUE)
  ELSE r

\* StripeService.handle_webhook_event, one call run on its own: the row is
\* fetched, or created when there is none; "raise" is MultipleObjectsReturned
\* leaving the except block
handle_webhook_event(db, event, t, env) ==
  LET rows == EventRows(db, event.id) IN
  IF Cardinality(rows) > 1
  THEN [db |-> db, result |-> "raise", ran |-> FALSE]
  ELSE AfterAtomic(
         db,
         HandleRow(IF rows = {}
                   THEN [db EXCEPT !.webhook_events = Append(@, NewEventRow(event))]
                   ELSE db,
                   event,
                   IF rows = {} THEN Len(db.webhook_events) + 1
                   ELSE CHOOSE k \in rows : TRUE,
                   t, env),
         event.id)

\* A variant of the verification that accepts any signature.
ConstructAcceptAny(req) == "event"

\* StripeService.construct_webhook_event: the event, or the
\* SignatureVerificationError / ValueError it raises
construct_webhook_event(req) == IF req.sig = "valid" THEN "event" ELSE "error"

\* The events the gateway can send: obj names the object of the event, which is
\* the Checkout Session cs_<obj> carrying metadata.subscription_id = obj, the
\* payment intent pi_<obj> carrying the same metadata, or the gateway
\* subscription sub_<obj>.  MaxSubs + 1 names an object no local row matches.
\* stripe_status is read by customer.subscription.updated alone.
Events ==
  {ev \in [id : EventIds, type : EventTypes, obj : 1..(MaxSubs + 1),
           stripe_status : StripeStatuses] :
     ev.type # "customer.subscription.updated" => ev.stripe_status = "active"}

\* A request to the webhook endpoint
Requests == [method : {"POST", "GET"}, user_agent : {"Stripe/", "other"},
             sig : {"missing", "invalid", "valid"}, event : Events]

\* A variant that acknowledges whatever the outcome.
AnswerAlwaysOk(result) == 200

\* The answer of stripe_webhook once handle_webhook_event has run (575-591):
\* False and an exception both end in 500
AnswerFor(result) == IF result = "success" THEN 200 ELSE 500

\* views.stripe_webhook: the answer and the database it leaves
stripe_webhook(db, req, t, env) ==
  IF req.method # "POST"
  THEN [db |-> db, code |-> 405, result |-> "not_called", ran |-> FALSE]
  ELSE IF req.user_agent # "Stripe/"
  THEN [db |-> db, code |-> 400, result |-> "not_called", ran |-> FALSE]
  ELSE IF req.sig = "missing"
  THEN [db |-> db, code |-> 400, result |-> "not_called", ran |-> FALSE]
  ELSE IF construct_webhook_event(req) # "event"
  THEN [db |-> db, code |-> 400, result |-> "not_called", ran |-> FALSE]
  ELSE LET r == handle_webhook_event(db, req.event, t, env)
       IN [db |-> r.db,
           code |-> AnswerFor(r.result),
           result |-> r.result, ran |-> r.ran]

\* ------------------------------------------------------------------ views

LiveStatuses == {"active", "processing", "pending"}

\* The duplicate-purchase query of _process_checkout (272-275)
ExistingLive(db, email) ==
  {i \in DOMAIN db.subscriptions :
     db.subscriptions[i].email = email /\ db.subscriptions[i].status \in LiveStatuses}

\* Subscription.objects.create(... status='pending') (287-299)
NewSubscription(email, billing_period, coupon) ==
  [email |-> email, status |-> "pending", billing_period |-> billing_period,
   coupon_used |-> coupon, start_date |-> 0, end_date |-> 0, next_billing_date |-> 0,
   stripe_subscription_id |-> 0,
   backend_organization_id |-> 0, backend_tenant_slug |-> 0,
   backend_integration_status |-> "not_started", backend_integration_error |-> FALSE]

\* PaymentIntent.objects.create(...) of create_checkout_session (162-169)
NewPaymentIntent(sid) ==
  [stripe_payment_intent_id |-> <<"cs", sid>>, subscription |-> sid, status |-> "pending"]

\* What the calls to the gateway and the shadow record do in one checkout:
\*   ok                     customer and Checkout Session are created
\*   customer_stripe_error  create_customer raises StripeError (314-316: the
\*                          checkout goes on without a customer)
\*   stripe_error           stripe.checkout.Session.create raises StripeError
\*   shadow_error           the session is created, PaymentIntent.objects.create
\*                          (stripe_service.py 162-169) raises
\*   other_error            another exception anywhere in the block
SessionOutcomes ==
  {"ok", "customer_stripe_error", "stripe_error", "shadow_error", "other_error"}

\* CreateAndPay with an except clause that keeps the transaction: an unexpected
\* exception leaves the row that was created
CreateAndPayNoRollback(db, email, billing_period, coupon, session) ==
  [db |-> [db EXCEPT !.subscriptions =
                       Append(@, NewSubscription(email, billing_period, coupon)),
                     !.handoffs = Append(@, 0)],
   result |-> "unexpected_error"]

\* _process_checkout after the duplicate-purchase check (286-361).  session is
\* what create_checkout_session does: it returns, raises stripe.error.StripeError,
\* or raises another exception (which rolls the whole atomic block back).
CreateAndPay(db, email, billing_period, coupon, session) ==
  LET sid == Len(db.subscriptions) + 1
      d1 == [db EXCEPT !.subscriptions =
                  Append(@, NewSubscription(email, billing_period, coupon)),
                !.handoffs = Append(@, 0)]
  IN CASE session \in {"ok", "customer_stripe_error"} ->
            [db |-> [d1 EXCEPT !.payment_intents = Append(@, NewPaymentIntent(sid)),
                               !.subscriptions[sid].status = "processing",
                               !.coupons = IF coupon = 0 THEN @
                                           ELSE [@ EXCEPT ![coupon] = @ + 1]],
             result |-> "redirect_to_stripe"]
       [] session = "stripe_error" ->
            [db |-> [d1 EXCEPT !.subscriptions[sid].status = "failed",
                               !.coupons = IF coupon = 0 THEN @
                                           ELSE [@ EXCEPT ![coupon] =
                                                   IF @ > 0 THEN @ - 1 ELSE 0]],
             result |-> "payment_failed"]
       [] OTHER -> [db |-> db, result |-> "unexpected_error"]

\* views._process_checkout, one submission run on its own
_process_checkout(db, email, billing_period, coupon, session) ==
  IF ExistingLive(db, email) # {}
  THEN [db |-> db, result |-> "existing_subscription"]
  ELSE CreateAndPay(db, email, billing_period, coupon, session)

\* Variant of payment_cancel that deletes the row it would mark cancelled
PaymentCancelDeletes(db, sid) ==
  IF sid \notin DOMAIN db.subscriptions THEN db
  ELSE IF db.subscriptions[sid].status \notin {"pending", "processing"} THEN db
  ELSE [db EXCEPT !.subscriptions = SubSeq(@, 1, sid - 1) \o SubSeq(@, sid + 1, Len(@))]

\* payment_cancel without its status check
PaymentCancelAlways(db, sid) ==
  IF sid \notin DOMAIN db.subscriptions THEN db
  ELSE LET c == db.subscriptions[sid].coupon_used
       IN [db EXCEPT !.subscriptions[sid].status = "cancelled",
                     !.coupons = IF c = 0 THEN @
                                 ELSE [@ EXCEPT ![c] = IF @ > 0 THEN @ - 1 ELSE 0]]

\* views.payment_cancel for ?subscription_id=sid
payment_cancel(db, sid) ==
  IF sid \notin DOMAIN db.subscriptions THEN db
  ELSE IF db.subscriptions[sid].status \notin {"pending", "processing"} THEN db
  ELSE LET c == db.subscriptions[sid].coupon_used
       IN [db EXCEPT !.subscriptions[sid].status = "cancelled",
                     !.coupons = IF c = 0 THEN @
                                 ELSE [@ EXCEPT ![c] = IF @ > 0 THEN @ - 1 ELSE 0]]

\* BackendApiService.handle_subscription_cancellation as cancel_subscription
\* calls it (backend_organization_id is set): backend_ok is the backend's answer
handle_subscription_cancellation(db, sid, backend_ok) ==
  IF db.subscriptions[sid].backend_organization_id = 0 THEN db
  ELSE IF backend_ok
  THEN [db EXCEPT !.subscriptions[sid].backend_integration_status = "cancelled"]
  ELSE db

\* views.cancel_subscription by the session user whose organization_schema is
\* the tenant slug `schema`
cancel_subscription(db, sid, schema, t, backend_ok) ==
  IF sid \notin DOMAIN db.subscriptions
  THEN [db |-> db, code |-> 500]      \* Http404 is caught by except Exception
  ELSE IF db.subscriptions[sid].backend_tenant_slug # schema
  THEN [db |-> db, code |-> 403]
  ELSE IF db.subscriptions[sid].status = "cancelled"
  THEN [db |-> db, code |-> 400]
  ELSE LET d1 == handle_subscription_cancellation(db, sid, backend_ok)
       IN [db |-> [d1 EXCEPT !.subscriptions[sid].status = "cancelled",
                             !.subscriptions[sid].end_date = t],
           code |-> 200]

\* StripeService.create_subscription_for_customer (recurring billing): the
\* gateway subscription created for Subscription sid gets the id sub_<sid>
create_subscription_for_customer(db, sid) ==
  [db EXCEPT !.subscriptions[sid].stripe_subscription_id = sid,
             !.subscriptions[sid].status = "processing"]

\* ------------------------------------------------- the requests, one by one

Workers == {"w1", "w2"}

NoRequest ==
  [op |-> "none", method |-> "-", ua |-> "-", sig |-> "-", id |-> 0, code |-> 0,
   result |-> "-", ran |-> FALSE, type |-> "-", obj |-> 0, handoff |-> "-",
   backend |-> "-"]

\* The database before any request: no row but the coupons, unused
EmptyDB ==
  [subscriptions |-> <<>>, coupons |-> [c \in CouponIds |-> 0],
   payment_intents |-> <<>>, webhook_events |-> <<>>, task_queue |-> {},
   handoffs |-> <<>>]

\* The tables hold db
IsDB(db) ==
  /\ subscriptions = db.subscriptions
  /\ coupons = db.coupons
  /\ payment_intents = db.payment_intents
  /\ webhook_events = db.webhook_events
  /\ task_queue = db.task_queue
  /\ handoffs = db.handoffs

Init ==
  /\ IsDB(EmptyDB)
  /\ now = 1
  /\ last = NoRequest
  /\ pc = [w \in Workers |-> [at |-> "idle"]]

\* The gateway sends an event only about an object it holds: a Checkout Session
\* that create_checkout_session created (its metadata names the Subscription,
\* which has a PaymentIntent shadow), a gateway subscription that
\* create_subscription_for_customer created, or an object unknown to this
\* database (the id MaxSubs + 1, which no row ever gets)
SessionTypes ==
  {"checkout.session.completed", "checkout.session.expired",
   "payment_intent.succeeded", "payment_intent.payment_failed"}
GatewayHolds(db, ev) ==
  \/ ev.obj = MaxSubs + 1
  \/ /\ ev.type \in SessionTypes
     /\ \E i \in DOMAIN db.payment_intents : db.payment_intents[i].subscription = ev.obj
  \/ /\ ev.type \notin SessionTypes
     /\ SubsByStripeSub(db, ev.obj) # {}

\* The events a request can carry: a redelivery of an event already recorded
\* (same id, same content), or the gateway's next new event
Deliverable ==
  {webhook_events[k].event_data : k \in DOMAIN webhook_events}
  \cup {ev \in Events : ev.id = Len(webhook_events) + 1 /\ GatewayHolds(DB, ev)}

\* One request to views.stripe_webhook
StripeWebhook(method, ua, sig, ev, env) ==
  LET req == [method |-> method, user_agent |-> ua, sig |-> sig, event |-> ev]
      r == stripe_webhook(DB, req, now, env)
  IN /\ \A sid \in DOMAIN r.db.handoffs : r.db.handoffs[sid] <= MaxHandoffs
     /\ SetDB(r.db)
     /\ last' = [op |-> "stripe_webhook", method |-> method, ua |-> ua, sig |-> sig,
                 id |-> IF r.result = "not_called" THEN 0 ELSE ev.id,
                 code |-> r.code, result |-> r.result, ran |-> r.ran,
                 type |-> IF r.ran THEN ev.type ELSE "-",
                 obj |-> IF r.ran THEN ev.obj ELSE 0,
                 handoff |-> IF r.ran THEN env.handoff ELSE "-",
                 backend |-> IF r.ran THEN env.backend ELSE "-"]
     /\ UNCHANGED <<now, pc>>

\* A request to the webhook endpoint: the gateway delivers an event (a signed
\* POST with its user agent), or any other request arrives (another method,
\* another user agent, a missing or invalid signature), whose body is not read
WebhookRequest ==
  /\ last = NoRequest
  /\ \E method \in {"POST", "GET"}, ua \in {"Stripe/", "other"},
        sig \in {"missing", "invalid", "valid"} :
       LET signed == method = "POST" /\ ua = "Stripe/" /\ sig = "valid"
       IN \E ev \in IF signed THEN Deliverable ELSE {CHOOSE e \in Events : TRUE},
             env \in IF signed THEN Envs ELSE {CHOOSE e \in Envs : ~e.raises} :
            StripeWebhook(method, ua, sig, ev, env)

\* One checkout form submission (views.checkout -> _process_checkout)
Checkout ==
  /\ last = NoRequest
  /\ \E email \in Emails, bp \in BillingPeriods, coupon \in {0} \cup CouponIds,
        session \in SessionOutcomes :
       LET r == _process_checkout(DB, email, bp, coupon, session)
       IN /\ Len(subscriptions) < MaxSubs
          /\ SetDB(r.db)
          /\ last' = [NoRequest EXCEPT !.op = "checkout", !.result = r.result,
                                          !.id = IF r.result \in {"redirect_to_stripe",
                                                                 "payment_failed"}
                                              THEN Len(r.db.subscriptions) ELSE 0]
          /\ UNCHANGED <<now, pc>>

\* One request to views.payment_cancel
PaymentCancel ==
  /\ last = NoRequest
  /\ \E sid \in DOMAIN subscriptions :
       /\ SetDB(payment_cancel(DB, sid))
       /\ last' = [NoRequest EXCEPT !.op = "payment_cancel", !.id = sid, !.code = 200]
       /\ UNCHANGED <<now, pc>>

\* One request to views.cancel_subscription; the session user belongs to the
\* organization with tenant slug `schema`
CancelSubscription ==
  /\ last = NoRequest
  /\ \E sid \in DOMAIN subscriptions, schema \in SubIds, backend_ok \in BOOLEAN :
       LET r == cancel_subscription(DB, sid, schema, now, backend_ok)
       IN /\ SetDB(r.db)
          /\ last' = [NoRequest EXCEPT !.op = "cancel_subscription", !.id = sid,
                                       !.code = r.code]
          /\ UNCHANGED <<now, pc>>

\* One call of StripeService.create_subscription_for_customer
CreateSubscriptionForCustomer ==
  /\ last = NoRequest
  /\ \E sid \in DOMAIN subscriptions :
       /\ subscriptions[sid].stripe_subscription_id = 0
       /\ SetDB(create_subscription_for_customer(DB, sid))
       /\ last' = [NoRequest EXCEPT !.op = "create_subscription_for_customer", !.id = sid]
       /\ UNCHANGED <<now, pc>>

\* Time passes
Tick ==
  /\ last = NoRequest
  /\ now < MaxTime
  /\ now' = now + 1
  /\ UNCHANGED <<subscriptions, coupons, payment_intents, webhook_events, task_queue,
                 handoffs, last, pc>>

\* The answer has gone out: the server takes the next request
Respond ==
  /\ last # NoRequest
  /\ last' = NoRequest
  /\ UNCHANGED <<subscriptions, coupons, payment_intents, webhook_events, task_queue,
                 handoffs, now, pc>>

Next ==
  \/ WebhookRequest
  \/ Checkout
  \/ PaymentCancel
  \/ CancelSubscription
  \/ CreateSubscriptionForCustomer
  \/ Tick
  \/ Respond

Spec == Init /\ [][Next]_vars

\* ------------------------------ two concurrent deliveries of one event
\* Each worker runs one call of handle_webhook_event for the same event.  The
\* database is PostgreSQL at READ COMMITTED: a transaction sees committed rows
\* only, its writes show at its commit, SELECT ... FOR UPDATE NOWAIT fails on a
\* row another transaction has locked, and an INSERT that meets an uncommitted
\* row with the same unique key waits for that transaction to end.

\* The workers whose open transaction holds the lock on WebhookEvent row k
LockedBy(k) == {w \in Workers : pc[w].at = "handling" /\ pc[w].row = k}

\* The workers whose open transaction has inserted a row for event id `id`
InsertedBy(id) ==
  {w \in Workers : pc[w].at = "handling" /\ pc[w].row = 0 /\ pc[w].event.id = id}

\* A table without the unique constraint.
InsertUnconstrained(db, id, inserting) == "inserted"

\* WebhookEvent.objects.create(stripe_event_id=id, ...) against the unique
\* constraint on stripe_event_id: IntegrityError when a committed row has the
\* id, blocked while another transaction's insert of it is uncommitted
InsertWebhookEvent(db, id, inserting) ==
  IF EventRows(db, id) # {} THEN "IntegrityError"
  ELSE IF inserting # {} THEN "blocked"
  ELSE "inserted"

\* A Subscription that went through checkout and maybe payment_cancel, an event
\* about it (or about an unknown object) that was never delivered, or was
\* delivered once with any outcome; both workers are about to handle it.
\* handoffs counts the provisioning requests of the two calls.
WebhookInit ==
  \E email \in Emails, bp \in BillingPeriods, cancelled \in BOOLEAN :
    LET d0 == _process_checkout(EmptyDB, email, bp, 0, "ok").db
        d1 == IF cancelled THEN payment_cancel(d0, 1) ELSE d0
    IN \E ev \in {e \in Events : e.id = 1 /\ GatewayHolds(d1, e)},
          delivered \in BOOLEAN, env \in Envs :
         /\ IsDB([(IF delivered THEN handle_webhook_event(d1, ev, 1, env).db ELSE d1)
                    EXCEPT !.handoffs = [i \in DOMAIN @ |-> 0]])
         /\ delivered \/ env = CHOOSE e \in Envs : TRUE
         /\ now = 1
         /\ last = NoRequest
         /\ pc = [w \in Workers |->
                    [at |-> "idle", event |-> ev, row |-> 0, result |-> "-", ran |-> FALSE]]

\* select_for_update(nowait=True).get(stripe_event_id=event_id) (269-274): the
\* row is locked, or there is none (DoesNotExist), or it is locked by the other
\* transaction (OperationalError, caught by the outer except Exception)
Lookup(w) ==
  /\ pc[w].at = "idle"
  /\ LET rows == EventRows(DB, pc[w].event.id) IN
       IF rows = {} THEN pc' = [pc EXCEPT ![w].at = "creating"]
       ELSE IF Cardinality(rows) > 1 THEN pc' = [pc EXCEPT ![w].at = "error_get"]
       ELSE LET k == CHOOSE r \in rows : TRUE
            IN IF LockedBy(k) # {}
               THEN pc' = [pc EXCEPT ![w].at = "error_get"]
               ELSE pc' = [pc EXCEPT ![w].at = "handling", ![w].row = k]
  /\ UNCHANGED <<subscriptions, coupons, payment_intents, webhook_events, task_queue,
                 handoffs, now, last>>

\* WebhookEvent.objects.create(...) (276-283)
Create(w) ==
  /\ pc[w].at = "creating"
  /\ LET answer == InsertWebhookEvent(DB, pc[w].event.id,
                                      InsertedBy(pc[w].event.id) \ {w})
     IN /\ answer # "blocked"
        /\ pc' = [pc EXCEPT ![w].at = IF answer = "inserted" THEN "handling"
                                      ELSE "error_get",
                            ![w].row = 0]
  /\ UNCHANGED <<subscriptions, coupons, payment_intents, webhook_events, task_queue,
                 handoffs, now, last>>

\* The rest of the atomic block (291-329) and its commit, or its rollback when
\* an exception leaves it (the except clause follows)
Commit(w) ==
  /\ pc[w].at = "handling"
  /\ \E env \in Envs :
       LET ev == pc[w].event
           r == IF pc[w].row = 0
                THEN HandleRow([DB EXCEPT !.webhook_events = Append(@, NewEventRow(ev))],
                               ev, Len(webhook_events) + 1, now, env)
                ELSE HandleRow(DB, ev, pc[w].row, now, env)
       IN IF r.result = "rolled_back"
          THEN /\ SetDB(RolledBack(DB, r.db))
               /\ pc' = [pc EXCEPT ![w].at = "error_get", ![w].row = 0,
                                   ![w].ran = r.ran]
          ELSE /\ SetDB(r.db)
               /\ pc' = [pc EXCEPT ![w].at = "done", ![w].result = r.result,
                                   ![w].ran = r.ran]
  /\ UNCHANGED <<now, last>>

\* except Exception: WebhookEvent.objects.get(stripe_event_id=event_id) (335-336),
\* a plain read of the committed row
ErrorGet(w) ==
  /\ pc[w].at = "error_get"
  /\ LET rows == EventRows(DB, pc[w].event.id) IN
       IF rows = {}
       THEN pc' = [pc EXCEPT ![w].at = "done", ![w].result = "failure"]
       ELSE IF Cardinality(rows) > 1
       THEN pc' = [pc EXCEPT ![w].at = "done", ![w].result = "raise"]
       ELSE LET k == CHOOSE r \in rows : TRUE
            IN pc' = [pc EXCEPT ![w] = [at |-> "error_save", event |-> pc[w].event,
                                        row |-> k, result |-> "-", ran |-> pc[w].ran,
                                        copy |-> [webhook_events[k] EXCEPT
                                                    !.processing_error = TRUE]]]
  /\ UNCHANGED <<subscriptions, coupons, payment_intents, webhook_events, task_queue,
                 handoffs, now, last>>

\* webhook_event.save(); return False (337-341): the UPDATE of every column waits
\* for the lock on the row, then writes the copy read by ErrorGet
ErrorSave(w) ==
  /\ pc[w].at = "error_save"
  /\ LockedBy(pc[w].row) = {}
  /\ webhook_events' = [webhook_events EXCEPT ![pc[w].row] = pc[w].copy]
  /\ pc' = [pc EXCEPT ![w] = [at |-> "done", event |-> pc[w].event, row |-> pc[w].row,
                              result |-> "failure", ran |-> pc[w].ran]]
  /\ UNCHANGED <<subscriptions, coupons, payment_intents, task_queue, handoffs, now, last>>

WebhookNext ==
  \E w \in Workers :
    \/ Lookup(w)
    \/ Create(w)
    \/ Commit(w)
    \/ ErrorGet(w)
    \/ ErrorSave(w)

WebhookSpec == WebhookInit /\ [][WebhookNext]_vars

\* ------------------------------------- two concurrent checkout submissions
\* Each worker runs one _process_checkout for the same email, without a coupon.
\* The whole body runs in one transaction: the other transaction sees the new
\* Subscription at the commit only.

\* No Subscription of the email is pending, processing or active: there is none,
\* or an earlier one has failed or was cancelled
CheckoutInit ==
  \E email \in Emails, prior \in {"none", "failed", "cancelled"},
     bps \in [Workers -> BillingPeriods] :
    LET d0 == CASE prior = "none" -> EmptyDB
                [] prior = "failed" ->
                     _process_checkout(EmptyDB, email, "monthly", 0, "stripe_error").db
                [] OTHER ->
                     payment_cancel(
                       _process_checkout(EmptyDB, email, "monthly", 0, "ok").db, 1)
    IN /\ IsDB(d0)
       /\ now = 1
       /\ last = NoRequest
       /\ pc = [w \in Workers |->
                  [at |-> "idle", email |-> email, billing_period |-> bps[w],
                   result |-> "-"]]

\* select_for_update().filter(email=..., status__in=[...]).first() (272-284): the
\* query sees committed rows; with no matching row it locks nothing
CheckExisting(w) ==
  /\ pc[w].at = "idle"
  /\ pc' = IF ExistingLive(DB, pc[w].email) # {}
           THEN [pc EXCEPT ![w].at = "done", ![w].result = "existing_subscription"]
           ELSE [pc EXCEPT ![w].at = "creating"]
  /\ UNCHANGED <<subscriptions, coupons, payment_intents, webhook_events, task_queue,
                 handoffs, now, last>>

\* The rest of the atomic block (286-361) and its commit
CreateSubscription(w) ==
  /\ pc[w].at = "creating"
  /\ \E session \in SessionOutcomes :
       LET r == CreateAndPay(DB, pc[w].email, pc[w].billing_period, 0, session)
       IN /\ SetDB(r.db)
          /\ pc' = [pc EXCEPT ![w].at = "done", ![w].result = r.result]
  /\ UNCHANGED <<now, last>>

CheckoutNext ==
  \E w \in Workers :
    \/ CheckExisting(w)
    \/ CreateSubscription(w)

CheckoutSpec == CheckoutInit /\ [][CheckoutNext]_vars

\* ------------------------------------ several events about one session
\* One Subscription has gone through checkout; the gateway sends up to MaxReplay
\* events about its Checkout Session and payment intent (the session completed,
\* a payment attempt failed), each delivered any number of times, while time
\* passes.

ReplayTypes == {"checkout.session.completed", "payment_intent.payment_failed"}

ReplayEvents ==
  [id : 1..MaxReplay, type : ReplayTypes, obj : {1}, stripe_status : {"active"}]

ReplayInit ==
  \E email \in Emails, bp \in BillingPeriods :
    /\ IsDB(_process_checkout(EmptyDB, email, bp, 0, "ok").db)
    /\ now = 1
    /\ last = NoRequest
    /\ pc = [w \in Workers |-> [at |-> "idle"]]

\* The gateway delivers its next event about the session, or one it sent before
ReplayDeliver ==
  /\ last = NoRequest
  /\ \E ev \in {webhook_events[k].event_data : k \in DOMAIN webhook_events}
               \cup {e \in ReplayEvents : e.id = Len(webhook_events) + 1},
        env \in Envs :
       StripeWebhook("POST", "Stripe/", "valid", ev, env)

ReplayNext ==
  \/ ReplayDeliver
  \/ Tick
  \/ Respond

ReplaySpec == ReplayInit /\ [][ReplayNext]_vars

\* ------------------------------------------------- the provisioning runs
\* Up to MaxProvSubs Subscriptions, each with a history of its own, and the
\* operations that call the provisioning backend outside a webhook delivery:
\* BackendApiService.create_organization itself, retry_organization_creation
\* (the retry view and the admin action) and retry_failed_integrations (the
\* bulk retry).  They run in autocommit mode: every save() is committed at once.

MaxProvSubs == 2    \* Subscription rows of the provisioning specifications
MaxRequests == 3    \* organization-create requests per Subscription

ProvEmails == <<"a@x", "b@x", "c@x">>

\* What happened to a Subscription after its checkout reached Stripe: nothing
\* yet, payment_cancel, its checkout.session.completed event (delivered under
\* env), or that event and then a payment_intent.payment_failed event
Histories ==
  [kind : {"processing", "cancelled"}, env : {CHOOSE e \in Envs : TRUE}]
  \cup [kind : {"completed", "completed_then_failed"}, env : Envs]

\* The event of the given type about Subscription i's checkout session, as the
\* next event Stripe sends
HistoryEvent(db, i, type) ==
  [id |-> Len(db.webhook_events) + 1, type |-> type, obj |-> i,
   stripe_status |-> "active"]

\* The database d2 that followed the completed event, after the rest of history h
AfterCompleted(d2, i, h) ==
  IF h.kind = "completed" THEN d2
  ELSE handle_webhook_event(d2, HistoryEvent(d2, i, "payment_intent.payment_failed"),
                            1, [h.env EXCEPT !.raises = FALSE]).db

\* The database d1 that followed the checkout, after history h
AfterCheckout(d1, i, h) ==
  CASE h.kind = "processing" -> d1
    [] h.kind = "cancelled" -> payment_cancel(d1, i)
    [] OTHER ->
         AfterCompleted(
           handle_webhook_event(d1, HistoryEvent(d1, i, "checkout.session.completed"),
                                1, h.env).db,
           i, h)

\* The database after Subscription i went through checkout and history h
WithHistory(db, i, h) ==
  AfterCheckout(_process_checkout(db, ProvEmails[i], "monthly", 0, "ok").db, i, h)

RECURSIVE Populate(_, _, _)
Populate(db, i, hist) ==
  IF i > MaxProvSubs THEN db
  ELSE Populate(WithHistory(db, i, hist[i]), i + 1, hist)

ProvisionInit ==
  \E hist \in [1..MaxProvSubs -> Histories] :
    /\ IsDB([Populate(EmptyDB, 1, hist) EXCEPT !.handoffs = [i \in DOMAIN @ |-> 0],
                                               !.task_queue = {}])
    /\ now = 1
    /\ last = NoRequest
    /\ pc = [w \in Workers |-> [at |-> "idle"]]

\* The database after a call c of create_organization for Subscription sid: the
\* request, if one was made, has reached the backend
Requested(c, sid) ==
  [c.db EXCEPT !.handoffs[sid] = IF c.requested THEN @ + 1 ELSE @]

\* BackendApiService.retry_organization_creation(subscription)
retry_organization_creation(db, sid, answer) ==
  create_organization(
    [db EXCEPT !.subscriptions[sid].backend_integration_status = "pending"], sid, answer)

\* The queryset of retry_failed_integrations (193-196)
FailedActive(db) ==
  {i \in DOMAIN db.subscriptions :
     /\ db.subscriptions[i].backend_integration_status = "failed"
     /\ db.subscriptions[i].status = "active"}

\* The loop of retry_failed_integrations (200-219) over the rows todo, in the
\* order of their keys: answers[i] is the backend's answer for row i
RECURSIVE RetryEach(_, _, _, _)
RetryEach(db, todo, answers, results) ==
  IF todo = {} THEN [db |-> db, results |-> results]
  ELSE LET i == CHOOSE j \in todo : \A j2 \in todo : j <= j2
           c == retry_organization_creation(db, i, answers[i])
       IN RetryEach(Requested(c, i), todo \ {i}, answers,
                    IF c.ret
                    THEN [results EXCEPT !.successful = @ + 1]
                    ELSE [results EXCEPT !.failed = @ + 1])

\* BackendApiService.retry_failed_integrations()
retry_failed_integrations(db, answers) ==
  RetryEach(db, FailedActive(db), answers,
            [successful |-> 0, failed |-> 0, skipped |-> 0])

\* The requests of db stay within the bound
WithinRequests(db) == \A i \in DOMAIN db.handoffs : db.handoffs[i] <= MaxRequests

\* One call of BackendApiService.create_organization
CreateOrganization ==
  /\ last = NoRequest
  /\ \E sid \in DOMAIN subscriptions, answer \in BackendAnswers :
       LET c == create_organization(DB, sid, answer)
       IN /\ WithinRequests(Requested(c, sid))
          /\ SetDB(Requested(c, sid))
          /\ last' = [op |-> "create_organization", id |-> sid, answer |-> answer,
                      ret |-> c.ret, error |-> c.error, requested |-> c.requested,
                      organization_id |-> c.organization_id,
                      tenant_slug |-> c.tenant_slug]
  /\ UNCHANGED <<now, pc>>

\* One call of BackendApiService.retry_organization_creation
RetryOrganizationCreation ==
  /\ last = NoRequest
  /\ \E sid \in DOMAIN subscriptions, answer \in BackendAnswers :
       LET c == retry_organization_creation(DB, sid, answer)
       IN /\ WithinRequests(Requested(c, sid))
          /\ SetDB(Requested(c, sid))
          /\ last' = [op |-> "retry_organization_creation", id |-> sid,
                      answer |-> answer, ret |-> c.ret, error |-> c.error,
                      requested |-> c.requested,
                      organization_id |-> c.organization_id,
                      tenant_slug |-> c.tenant_slug]
  /\ UNCHANGED <<now, pc>>

\* One call of BackendApiService.retry_failed_integrations
RetryFailedIntegrations ==
  /\ last = NoRequest
  /\ \E answers \in [DOMAIN subscriptions -> BackendAnswers] :
       LET r == retry_failed_integrations(DB, answers)
       IN /\ WithinRequests(r.db)
          /\ SetDB(r.db)
          /\ last' = [op |-> "retry_failed_integrations", answers |-> answers,
                      scanned |-> FailedActive(DB), results |-> r.results]
  /\ UNCHANGED <<now, pc>>

\* The rows the retry_backend_integrations command works on (44-62): the
\* active Subscription named by --subscription-id (selected # 0), or else the
\* active ones whose integration status is failed or pending (all are younger
\* than --max-age-hours here)
CommandQueryset(db, selected) ==
  {i \in DOMAIN db.subscriptions :
     /\ db.subscriptions[i].status = "active"
     /\ IF selected # 0 THEN i = selected
        ELSE db.subscriptions[i].backend_integration_status \in {"failed", "pending"}}

\* Command.handle of retry_backend_integrations without --dry-run (44-126):
\* the loop stops at once when test_connection fails, else each row goes
\* through retry_organization_creation
retry_backend_integrations(db, selected, connection_ok, answers) ==
  IF connection_ok
  THEN RetryEach(db, CommandQueryset(db, selected), answers,
                 [successful |-> 0, failed |-> 0, skipped |-> 0])
  ELSE [db |-> db, results |-> [successful |-> 0, failed |-> 0, skipped |-> 0]]

\* One run of the management command retry_backend_integrations
RetryBackendIntegrations ==
  /\ last = NoRequest
  /\ \E selected \in {0} \cup DOMAIN subscriptions, connection_ok \in BOOLEAN,
        answers \in [DOMAIN subscriptions -> BackendAnswers] :
       LET r == retry_backend_integrations(DB, selected, connection_ok, answers)
       IN /\ WithinRequests(r.db)
          /\ SetDB(r.db)
          /\ last' = [op |-> "retry_backend_integrations", id |-> selected,
                      results |-> r.results]
  /\ UNCHANGED <<now, pc>>

\* What handle_subscription_cancellation sends and returns (164-184): without a
\* backend_organization_id it logs a warning and returns
\* (False, {'error': 'No backend organization found'}) at once; otherwise it
\* posts the cancel request and returns what _make_request returned
CancellationReturn(db, sid, backend_ok) ==
  IF db.subscriptions[sid].backend_organization_id = 0
  THEN [requested |-> FALSE, success |-> FALSE,
        error |-> "No backend organization found"]
  ELSE [requested |-> TRUE, success |-> backend_ok,
        error |-> IF backend_ok THEN "-" ELSE "request failed"]

\* One direct call of BackendApiService.handle_subscription_cancellation
HandleSubscriptionCancellation ==
  /\ last = NoRequest
  /\ \E sid \in DOMAIN subscriptions, backend_ok \in BOOLEAN :
       LET r == CancellationReturn(DB, sid, backend_ok)
       IN /\ SetDB(handle_subscription_cancellation(DB, sid, backend_ok))
          /\ last' = [op |-> "handle_subscription_cancellation", id |-> sid,
                      requested |-> r.requested, success |-> r.success,
                      error |-> r.error]
  /\ UNCHANGED <<now, pc>>

ProvisionNext ==
  \/ HandleSubscriptionCancellation
  \/ RetryBackendIntegrations
  \/ CreateOrganization
  \/ RetryOrganizationCreation
  \/ RetryFailedIntegrations
  \/ Respond

ProvisionSpec == ProvisionInit /\ [][ProvisionNext]_vars

\* ------------------------------------------- the provisioning task and its retries
\* One dispatch of create_backend_organization_task: the worker runs the queued
\* task; a run that raises is retried by Celery's autoretry_for until
\* retry_kwargs['max_retries'] retries are used up.  The task runs in autocommit
\* mode.

\* retry_kwargs={'max_retries': 5, ...}: the retries autoretry_for allows
max_retries == 5

\* self.max_retries as the except clause reads it (73): the task is declared
\* without a max_retries option, so the attribute keeps Celery's default
TaskMaxRetries == 3

\* The Subscriptions a task was dispatched for: the webhook handlers dispatch
\* after setting pending (stripe_service.py 430-436), the periodic task for
\* failed rows (tasks.py 98-108); the row may have been completed since
Dispatchable(db) ==
  {i \in DOMAIN db.subscriptions :
     db.subscriptions[i].backend_integration_status \in {"pending", "failed", "completed"}}

\* autoretry_for allowing one retry more
GivesUpLate(retries) == retries + 1 > max_retries + 1

\* autoretry_for gives up when the retries are used up (Task.retry)
GivesUp(retries) == retries + 1 > max_retries

\* The except clause of the task (69-84) for run number retries: on "final
\* failure", as the task sees it, the row is read again and marked failed
FinalFailure(db, sid, retries) ==
  IF retries >= TaskMaxRetries
  THEN [db EXCEPT !.subscriptions[sid].backend_integration_status = "failed",
                  !.subscriptions[sid].backend_integration_error = TRUE]
  ELSE db

\* The task's body after create_organization returned c (50-84): outcome
\* "success" when it returned a result, "raised" when the exception left it
TaskAfterCreate(c, sid, retries) ==
  IF c.ret
  THEN [db |-> Requested(c, sid), outcome |-> "success"]
  ELSE IF c.error = "none"
  THEN [db |-> FinalFailure(
                 [Requested(c, sid) EXCEPT
                    !.subscriptions[sid].backend_integration_status = "failed",
                    !.subscriptions[sid].backend_integration_error = TRUE],
                 sid, retries),
        outcome |-> "raised"]
  ELSE [db |-> FinalFailure(Requested(c, sid), sid, retries), outcome |-> "raised"]

\* create_backend_organization_task(subscription_id), one run
create_backend_organization_task(db, sid, retries, answer) ==
  IF db.subscriptions[sid].backend_integration_status = "completed"
  THEN [db |-> db, outcome |-> "already_completed"]
  ELSE TaskAfterCreate(create_organization(db, sid, answer), sid, retries)

\* The queue after the run of task: Celery queues the retry of a run that raised
Autoretry(queue, task, outcome) ==
  IF outcome = "raised" /\ ~GivesUp(task.retries)
  THEN (queue \ {task}) \cup {[task EXCEPT !.retries = @ + 1]}
  ELSE queue \ {task}

TaskInit ==
  \E hist \in [1..MaxProvSubs -> Histories] :
    LET db == Populate(EmptyDB, 1, hist) IN
    \E sid \in Dispatchable(db) :
      /\ IsDB([db EXCEPT !.handoffs = [i \in DOMAIN @ |-> 0],
                         !.task_queue = {[sub |-> sid, retries |-> 0]}])
      /\ now = 1
      /\ last = NoRequest
      /\ pc = [w \in Workers |-> [at |-> "idle"]]

\* The worker runs a queued task
RunTask ==
  /\ \E task \in task_queue, answer \in BackendAnswers :
       LET r == create_backend_organization_task(DB, task.sub, task.retries, answer)
       IN /\ SetDB([r.db EXCEPT !.task_queue = Autoretry(@, task, r.outcome)])
          /\ last' = [op |-> "create_backend_organization_task", id |-> task.sub,
                      answer |-> answer, retries |-> task.retries,
                      outcome |-> IF r.outcome = "raised" /\ GivesUp(task.retries)
                                  THEN "gave_up" ELSE r.outcome]
  /\ UNCHANGED <<now, pc>>

TaskNext == RunTask

\* The worker is running: a queued task is run in the end
TaskSpec == TaskInit /\ [][TaskNext]_vars /\ WF_vars(RunTask)

\* ------------------------------------------------------- coupons at checkout
\* Checkouts that carry a coupon, as _process_checkout handles them: a visitor
\* applies the coupon (the 'apply_coupon' branch of views.checkout validates it),
\* submits the payment form later, and may come back through payment_cancel.
\* Two visitors are under way at a time.

MaxCouponSubs == 3    \* Subscription rows of the coupon specification
CouponMaxUses == 1    \* max_uses of every Coupon row (0 is NULL: unlimited)

CouponEmails == {"a@x", "b@x", "c@x"}

Null == -1    \* NULL in a nullable integer column whose 0 is a value

\* Coupon.is_valid() at time t for a Coupon row: the flag and the message.
\* valid_until 0 is NULL; `if self.max_uses` is false for NULL and for 0.
Coupon_is_valid(coupon, t) ==
  IF ~coupon.is_active
  THEN [valid |-> FALSE, message |-> "Coupon is not active"]
  ELSE IF t < coupon.valid_from
  THEN [valid |-> FALSE, message |-> "Coupon is not yet valid"]
  ELSE IF coupon.valid_until # 0 /\ t > coupon.valid_until
  THEN [valid |-> FALSE, message |-> "Coupon has expired"]
  ELSE IF coupon.max_uses # Null /\ coupon.max_uses # 0
          /\ coupon.used_count >= coupon.max_uses
  THEN [valid |-> FALSE, message |-> "Coupon usage limit exceeded"]
  ELSE [valid |-> TRUE, message |-> "Valid"]

\* The usage-limit check of Coupon.is_valid (145-147) for an active coupon
\* inside its validity period
is_valid(db, coupon) ==
  ~(CouponMaxUses # 0 /\ db.coupons[coupon] >= CouponMaxUses)

\* The visitor's page after the 'apply_coupon' POST of views.checkout (214-234):
\* the coupon is applied when it is valid, else the page carries none
ApplyCoupon(w) ==
  /\ last = NoRequest
  /\ pc[w].at = "idle"
  /\ \E email \in CouponEmails, coupon \in CouponIds :
       /\ pc' = [pc EXCEPT ![w] = [at |-> "applied", email |-> email,
                                   coupon |-> IF is_valid(DB, coupon) THEN coupon ELSE 0]]
       /\ last' = [op |-> "apply_coupon", id |-> 0, coupon |-> coupon,
                   result |-> IF is_valid(DB, coupon) THEN "applied" ELSE "not_valid",
                   before |-> coupons]
  /\ UNCHANGED <<subscriptions, coupons, payment_intents, webhook_events, task_queue,
                 handoffs, now>>

\* What one submission answered: the Subscription it created, if any
Submitted(r, coupon) ==
  [op |-> "checkout",
   id |-> IF r.result \in {"redirect_to_stripe", "payment_failed"}
          THEN Len(r.db.subscriptions) ELSE 0,
   coupon |-> coupon, result |-> r.result, before |-> coupons]

\* The visitor submits the payment form: _process_checkout with the coupon of
\* the page
SubmitPayment(w) ==
  /\ last = NoRequest
  /\ pc[w].at = "applied"
  /\ Len(subscriptions) < MaxCouponSubs
  /\ \E session \in SessionOutcomes :
       LET r == _process_checkout(DB, pc[w].email, "monthly", pc[w].coupon, session)
       IN /\ SetDB(r.db)
          /\ last' = Submitted(r, pc[w].coupon)
  /\ pc' = [pc EXCEPT ![w] = [at |-> "idle"]]
  /\ UNCHANGED now

\* One request to views.payment_cancel
CouponPaymentCancel ==
  /\ last = NoRequest
  /\ \E sid \in DOMAIN subscriptions :
       /\ SetDB(payment_cancel(DB, sid))
       /\ last' = [op |-> "payment_cancel", id |-> sid,
                   coupon |-> subscriptions[sid].coupon_used,
                   result |-> subscriptions[sid].status, before |-> coupons]
  /\ UNCHANGED <<now, pc>>

CouponNext ==
  \/ \E w \in Workers : ApplyCoupon(w)
  \/ \E w \in Workers : SubmitPayment(w)
  \/ CouponPaymentCancel
  \/ Respond

CouponSpec == Init /\ [][CouponNext]_vars

\* ------------------------------------------------------- prices and discounts
\* The pricing functions, applied to tier prices and coupons drawn from small
\* sets.  Prices and fixed discounts are Decimals with two places and are
\* counted in cents; a discount_value is counted in hundredths as well (2000 is
\* 20.00, percent or dollars).  Decimal arithmetic is exact here, and a
\* percentage discount has up to six places: the amounts the functions return
\* are counted in units of 1/10000 cent.

FinePerCent == 10000    \* units of a returned amount per cent

\* monthly_price and annual_price of a tier, in cents (annual_price 0 is NULL)
Prices == {0, 999, 2500, 10000}

\* discount_value of a coupon, in hundredths: the model field has no validator,
\* so a percentage may exceed 100
DiscountValues == {0, 1, 1000, 2000, 5000, 10000, 15000}

\* minimum_amount of a coupon, in cents (0 is NULL)
MinimumAmounts == {0, 5000}

\* A coupon as the pricing functions see it; usable is the outcome of
\* coupon.is_valid() and coupon.can_apply_to_tier(tier)
PricingCoupons ==
  [discount_type : {"percentage", "fixed"}, discount_value : DiscountValues,
   minimum_amount : MinimumAmounts, usable : BOOLEAN]

\* No coupon (None)
NoCoupon ==
  [discount_type |-> "none", discount_value |-> 0, minimum_amount |-> 0,
   usable |-> FALSE]

Tiers == [monthly_price : Prices, annual_price : Prices]

Min(a, b) == IF a <= b THEN a ELSE b
Max(a, b) == IF a >= b THEN a ELSE b

\* A discount function that rounds a percentage discount down to whole cents
CalculateDiscountInCents(coupon, amount) ==
  IF coupon.discount_type = "percentage"
  THEN ((amount * coupon.discount_value) \div FinePerCent) * FinePerCent
  ELSE Min(coupon.discount_value, amount) * FinePerCent

\* Coupon.calculate_discount(amount), amount in cents:
\* (amount * discount_value) / 100, or min(discount_value, amount)
calculate_discount(coupon, amount) ==
  IF coupon.discount_type = "percentage"
  THEN amount * coupon.discount_value
  ELSE Min(coupon.discount_value, amount) * FinePerCent

\* The base price of a tier for a billing period (models.py 252-255,
\* views.py 198-202, 456-459)
BasePrice(tier, billing_period) ==
  IF billing_period = "annual" /\ tier.annual_price # 0
  THEN tier.annual_price
  ELSE tier.monthly_price

\* The discount of calculate_pricing (257-264)
PricingDiscount(coupon, base) ==
  IF coupon = NoCoupon THEN 0
  ELSE IF ~coupon.usable THEN 0
  ELSE IF coupon.minimum_amount # 0 /\ base < coupon.minimum_amount THEN 0
  ELSE calculate_discount(coupon, base)

\* Subscription.calculate_pricing(coupon)
calculate_pricing(tier, billing_period, coupon) ==
  LET base == BasePrice(tier, billing_period) IN
  [base_amount |-> base * FinePerCent,
   discount_amount |-> PricingDiscount(coupon, base),
   final_amount |-> Max(base * FinePerCent - PricingDiscount(coupon, base), 0)]

\* The amounts of a coupon endpoint that rejected the coupon: none
Rejected(base) ==
  [success |-> FALSE, base_amount |-> base * FinePerCent, discount_amount |-> 0,
   final_amount |-> base * FinePerCent]

\* apply_coupon without the minimum-amount test
ApplyCouponNoMinimum(coupon, base) ==
  IF ~coupon.usable THEN Rejected(base)
  ELSE [success |-> TRUE, base_amount |-> base * FinePerCent,
        discount_amount |-> calculate_discount(coupon, base),
        final_amount |-> Max(base * FinePerCent - calculate_discount(coupon, base), 0)]

\* The 'apply_coupon' branch of views.checkout (214-231) and apply_coupon_ajax
\* (394-409) for a base amount in cents:
\* final_amount = max(base_amount - discount_amount, Decimal('0.00'))
apply_coupon(coupon, base) ==
  IF ~coupon.usable THEN Rejected(base)
  ELSE IF coupon.minimum_amount # 0 /\ base < coupon.minimum_amount THEN Rejected(base)
  ELSE [success |-> TRUE, base_amount |-> base * FinePerCent,
        discount_amount |-> calculate_discount(coupon, base),
        final_amount |-> Max(base * FinePerCent - calculate_discount(coupon, base), 0)]

\* views.validate_coupon (444-471): final_price = base_price - discount_amount
validate_coupon(tier, billing_period, coupon) ==
  LET base == BasePrice(tier, billing_period) IN
  IF ~coupon.usable THEN Rejected(base)
  ELSE IF coupon.minimum_amount # 0 /\ base < coupon.minimum_amount THEN Rejected(base)
  ELSE [success |-> TRUE, base_amount |-> base * FinePerCent,
        discount_amount |-> calculate_discount(coupon, base),
        final_amount |-> base * FinePerCent - calculate_discount(coupon, base)]

\* The amounts _process_checkout stores on the Subscription (294-296): those
\* views.checkout hands over in its 'submit_payment' branch, where no coupon is
\* applied (209-211, 242-245)
StoredAmounts(tier, billing_period) ==
  [base_amount |-> BasePrice(tier, billing_period) * FinePerCent,
   discount_amount |-> 0,
   final_amount |-> BasePrice(tier, billing_period) * FinePerCent]

\* Coupon rows as is_valid reads them
ValidityCoupons ==
  [is_active : BOOLEAN, valid_from : 1..MaxTime, valid_until : 0..MaxTime,
   max_uses : {Null, 0, 1, 2}, used_count : 0..2]

PricingInit == Init

\* One call of Coupon.is_valid at time t
IsValid ==
  /\ last = NoRequest
  /\ \E coupon \in ValidityCoupons, t \in 1..MaxTime :
       last' = [op |-> "is_valid", coupon |-> coupon, t |-> t,
                answer |-> Coupon_is_valid(coupon, t)]
  /\ UNCHANGED <<subscriptions, coupons, payment_intents, webhook_events, task_queue,
                 handoffs, now, pc>>

\* One call of Coupon.calculate_discount
CalculateDiscount ==
  /\ last = NoRequest
  /\ \E coupon \in PricingCoupons, amount \in Prices :
       last' = [op |-> "calculate_discount", coupon |-> coupon, amount |-> amount,
                discount |-> calculate_discount(coupon, amount)]
  /\ UNCHANGED <<subscriptions, coupons, payment_intents, webhook_events, task_queue,
                 handoffs, now, pc>>

\* One call of Subscription.calculate_pricing
CalculatePricing ==
  /\ last = NoRequest
  /\ \E tier \in Tiers, bp \in BillingPeriods, coupon \in {NoCoupon} \cup PricingCoupons :
       last' = [op |-> "calculate_pricing", coupon |-> coupon, tier |-> tier,
                amounts |-> calculate_pricing(tier, bp, coupon)]
  /\ UNCHANGED <<subscriptions, coupons, payment_intents, webhook_events, task_queue,
                 handoffs, now, pc>>

\* One coupon applied on the checkout page or through apply_coupon_ajax
ApplyCouponAjax ==
  /\ last = NoRequest
  /\ \E tier \in Tiers, bp \in BillingPeriods, coupon \in PricingCoupons :
       last' = [op |-> "apply_coupon", coupon |-> coupon, tier |-> tier,
                amounts |-> apply_coupon(coupon, BasePrice(tier, bp))]
  /\ UNCHANGED <<subscriptions, coupons, payment_intents, webhook_events, task_queue,
                 handoffs, now, pc>>

\* One request to views.validate_coupon
ValidateCoupon ==
  /\ last = NoRequest
  /\ \E tier \in Tiers, bp \in BillingPeriods, coupon \in PricingCoupons :
       last' = [op |-> "validate_coupon", coupon |-> coupon, tier |-> tier,
                amounts |-> validate_coupon(tier, bp, coupon)]
  /\ UNCHANGED <<subscriptions, coupons, payment_intents, webhook_events, task_queue,
                 handoffs, now, pc>>

\* One payment submission: the amounts stored on the new Subscription
StoreAmounts ==
  /\ last = NoRequest
  /\ \E tier \in Tiers, bp \in BillingPeriods :
       last' = [op |-> "submit_payment", coupon |-> NoCoupon, tier |-> tier,
                amounts |-> StoredAmounts(tier, bp)]
  /\ UNCHANGED <<subscriptions, coupons, payment_intents, webhook_events, task_queue,
                 handoffs, now, pc>>

\* int(amount * 100): a Decimal amount in whole cents, truncated
Cents(amount) == amount \div FinePerCent

\* The unit_amount of each entry of line_items that
\* StripeService.create_checkout_session builds for a Subscription: the base
\* line item carries int(final_amount * 100); a discount_amount > 0 appends a
\* line item of -int(discount_amount * 100)
line_items(subscription) ==
  <<Cents(subscription.final_amount)>>
  \o (IF subscription.discount_amount > 0
      THEN <<0 - Cents(subscription.discount_amount)>>
      ELSE <<>>)

\* What the customer is charged: the sum of the line items (quantity 1 each)
RECURSIVE SumOf(_)
SumOf(seq) == IF seq = <<>> THEN 0 ELSE Head(seq) + SumOf(Tail(seq))

\* One call of create_checkout_session for a Subscription whose amounts
\* calculate_pricing set
CreateCheckoutSession ==
  /\ last = NoRequest
  /\ \E tier \in Tiers, bp \in BillingPeriods, coupon \in {NoCoupon} \cup PricingCoupons :
       last' = [op |-> "create_checkout_session", coupon |-> coupon, tier |-> tier,
                amounts |-> calculate_pricing(tier, bp, coupon),
                line_items |-> line_items(calculate_pricing(tier, bp, coupon))]
  /\ UNCHANGED <<subscriptions, coupons, payment_intents, webhook_events, task_queue,
                 handoffs, now, pc>>

PricingNext ==
  \/ CreateCheckoutSession
  \/ CalculateDiscount
  \/ CalculatePricing
  \/ ApplyCouponAjax
  \/ ValidateCoupon
  \/ StoreAmounts
  \/ IsValid
  \/ Respond

PricingSpec == PricingInit /\ [][PricingNext]_vars

\* ------------------------------------- several checkouts of one visitor
\* One visitor submits the checkout form up to MaxLiveSubs times, one
\* submission after the other; the gateway sends up to MaxLiveEvents events
\* about the Checkout Sessions so created (a payment attempt failed, the
\* session completed or expired), and the visitor may cancel.

MaxLiveSubs == 2      \* checkout submissions of the visitor
MaxLiveEvents == 2    \* gateway events about their sessions

LiveTypes ==
  {"checkout.session.completed", "checkout.session.expired",
   "payment_intent.payment_failed"}

LiveEvents ==
  [id : 1..MaxLiveEvents, type : LiveTypes, obj : 1..(MaxLiveSubs + 1),
   stripe_status : {"active"}]

\* The backend, when the handler calls it inline, creates the organization
LiveEnvs == {env \in Envs : env.backend = "ok"}

\* One checkout form submission of the visitor
LiveCheckout ==
  /\ last = NoRequest
  /\ Len(subscriptions) < MaxLiveSubs
  /\ \E email \in Emails, session \in {"ok", "stripe_error"} :
       LET r == _process_checkout(DB, email, "monthly", 0, session)
       IN /\ SetDB(r.db)
          /\ last' = [NoRequest EXCEPT !.op = "checkout", !.result = r.result,
                                       !.id = IF r.result \in {"redirect_to_stripe",
                                                              "payment_failed"}
                                              THEN Len(r.db.subscriptions) ELSE 0]
          /\ UNCHANGED <<now, pc>>

\* The gateway delivers its next event about a session it holds or about a
\* session whose metadata names no local Subscription (MaxLiveSubs + 1), or an
\* event it sent before
LiveDeliver ==
  /\ last = NoRequest
  /\ \E ev \in {webhook_events[k].event_data : k \in DOMAIN webhook_events}
               \cup {e \in LiveEvents : /\ e.id = Len(webhook_events) + 1
                                        /\ \/ e.obj = MaxLiveSubs + 1
                                           \/ \E i \in DOMAIN payment_intents :
                                                payment_intents[i].subscription = e.obj},
        env \in LiveEnvs :
       StripeWebhook("POST", "Stripe/", "valid", ev, env)

LiveNext ==
  \/ LiveCheckout
  \/ LiveDeliver
  \/ PaymentCancel
  \/ CancelSubscription
  \/ Respond

LiveSpec == Init /\ [][LiveNext]_vars

\* ------------------------------- requests that overlap on one Subscription
\* One Subscription has gone through checkout.  Neither a provisioning run nor
\* payment_cancel takes a lock or opens a transaction: each loads the
\* Subscription (Subscription.objects.get), works on the loaded object and
\* later calls save(), which writes every field of that object.  Between the
\* load and the save other requests commit: webhook events about the Checkout
\* Session, cancel_subscription, another run.

MaxOverlapEvents == 2   \* gateway events about the session

OverlapEvents ==
  [id : 1..MaxOverlapEvents, type : LiveTypes, obj : {1}, stripe_status : {"active"}]

\* The backend answers a provisioning request with success or with an error
OverlapAnswers == {"ok", "fail"}

\* The database as a worker sees it through the object it loaded: the row of
\* Subscription sid is the loaded one
Loaded(db, sid, row) == SaveSub(db, sid, row)

OverlapInit ==
  \E email \in Emails, coupon \in {0} \cup CouponIds :
    /\ IsDB(_process_checkout(EmptyDB, email, "monthly", coupon, "ok").db)
    /\ now = 1
    /\ last = NoRequest
    /\ pc = [w \in Workers |-> [at |-> "idle"]]

\* The gateway delivers its next event about the session, or one it sent before
OverlapDeliver ==
  /\ last = NoRequest
  /\ \E ev \in {webhook_events[k].event_data : k \in DOMAIN webhook_events}
               \cup {e \in OverlapEvents : e.id = Len(webhook_events) + 1},
        env \in LiveEnvs :
       StripeWebhook("POST", "Stripe/", "valid", ev, env)

\* create_backend_organization_task, up to the backend request: the task loads
\* the Subscription (31) and returns if its integration is completed (38-44)
TaskLoad(w) ==
  /\ pc[w].at = "idle"
  /\ \E task \in task_queue :
       IF subscriptions[task.sub].backend_integration_status = "completed"
       THEN /\ task_queue' = task_queue \ {task}
            /\ UNCHANGED pc
       ELSE /\ pc' = [pc EXCEPT ![w] = [at |-> "task", sub |-> task.sub, task |-> task,
                                        row |-> subscriptions[task.sub]]]
            /\ UNCHANGED task_queue
  /\ UNCHANGED <<subscriptions, coupons, payment_intents, webhook_events, handoffs,
                 now, last>>

\* The rest of the task: the backend has answered and create_organization, then
\* the task, save the loaded object (backend_api.py 116-129, tasks.py 62-64)
TaskSave(w) ==
  /\ pc[w].at = "task"
  /\ last = NoRequest
  /\ \E answer \in OverlapAnswers :
       LET sid == pc[w].sub
           r == create_backend_organization_task(Loaded(DB, sid, pc[w].row), sid,
                                                 pc[w].task.retries, answer)
       IN /\ r.db.handoffs[sid] <= MaxHandoffs
          /\ SetDB([r.db EXCEPT !.task_queue = Autoretry(@, pc[w].task, r.outcome)])
          /\ last' = [NoRequest EXCEPT !.op = "provisioning_run", !.id = sid,
                                       !.result = r.outcome]
  /\ pc' = [pc EXCEPT ![w] = [at |-> "idle"]]
  /\ UNCHANGED now

\* retry_organization_creation, up to the backend request: the integration
\* status of the loaded Subscription is reset to pending and saved (157-158)
RetryLoad(w) ==
  /\ pc[w].at = "idle"
  /\ \E sid \in DOMAIN subscriptions :
       /\ subscriptions[sid].backend_integration_status \in {"failed", "completed"}
       /\ subscriptions' =
            [subscriptions EXCEPT ![sid].backend_integration_status = "pending"]
       /\ pc' = [pc EXCEPT ![w] = [at |-> "retry", sub |-> sid,
                                   row |-> subscriptions'[sid]]]
  /\ UNCHANGED <<coupons, payment_intents, webhook_events, task_queue, handoffs,
                 now, last>>

\* The rest of retry_organization_creation: create_organization saves the
\* loaded object with the backend's answer
RetrySave(w) ==
  /\ pc[w].at = "retry"
  /\ last = NoRequest
  /\ \E answer \in OverlapAnswers :
       LET sid == pc[w].sub
           c == create_organization(Loaded(DB, sid, pc[w].row), sid, answer)
       IN /\ Requested(c, sid).handoffs[sid] <= MaxHandoffs
          /\ SetDB(Requested(c, sid))
          /\ last' = [NoRequest EXCEPT !.op = "provisioning_run", !.id = sid,
                                       !.result = IF c.ret THEN "success" ELSE "failed"]
  /\ pc' = [pc EXCEPT ![w] = [at |-> "idle"]]
  /\ UNCHANGED now

\* payment_cancel, up to its status test: the view loads the Subscription (601)
PaymentCancelRead(w) ==
  /\ pc[w].at = "idle"
  /\ \E sid \in DOMAIN subscriptions :
       pc' = [pc EXCEPT ![w] = [at |-> "cancel", sub |-> sid, row |-> subscriptions[sid]]]
  /\ UNCHANGED <<subscriptions, coupons, payment_intents, webhook_events, task_queue,
                 handoffs, now, last>>

\* The rest of payment_cancel (603-611): the status test on the loaded object,
\* the save of that object as cancelled, the coupon's decrement
PaymentCancelWrite(w) ==
  /\ pc[w].at = "cancel"
  /\ last = NoRequest
  /\ LET sid == pc[w].sub
         acts == pc[w].row.status \in {"pending", "processing"}
     IN /\ SetDB(IF acts THEN payment_cancel(Loaded(DB, sid, pc[w].row), sid) ELSE DB)
        /\ last' = [NoRequest EXCEPT !.op = "payment_cancel", !.id = sid, !.code = 200,
                                     !.result = IF acts THEN "cancelled" ELSE "shown"]
  /\ pc' = [pc EXCEPT ![w] = [at |-> "idle"]]
  /\ UNCHANGED now

\* The worker that runs provisioning and the one that serves payment_cancel
Provisioner == "w1"
Canceller == "w2"

OverlapNext ==
  \/ OverlapDeliver
  \/ CancelSubscription
  \/ TaskLoad(Provisioner)
  \/ TaskSave(Provisioner)
  \/ RetryLoad(Provisioner)
  \/ RetrySave(Provisioner)
  \/ PaymentCancelRead(Canceller)
  \/ PaymentCancelWrite(Canceller)
  \/ Respond

OverlapSpec == OverlapInit /\ [][OverlapNext]_vars

\* --------------------------------------------------- the checkout page
\* One visitor on the checkout page of a tier (views.checkout): a POST with
\* 'apply_coupon' or 'remove_coupon' renders the page again, a POST with
\* 'submit_payment' runs _process_checkout.  The view keeps nothing between two
\* requests: applied_coupon, discount_amount and final_amount are local
\* variables, set anew by every request (209-211).  The page the visitor looks
\* at is kept in pc; the Coupon row with the code the visitor types is coupon
\* PageCouponId.

PageCouponId == 1     \* the Coupon row of the code typed on the page
Visitor == "w1"       \* the browser of the visitor

\* The tiers offered: those with a monthly price
PageTiers == {tier \in Tiers : tier.monthly_price # 0}

\* The billing period the view works with: monthly when the tier has no
\* annual price (197-202)
PageBilling(tier, billing_period) ==
  IF billing_period = "annual" /\ tier.annual_price # 0 THEN "annual" ELSE "monthly"

\* What views.checkout computes before it looks at the POST (197-211)
PageDefaults(tier, billing_period) ==
  [applied_coupon |-> 0, coupon |-> NoCoupon,
   amounts |-> [base_amount |-> BasePrice(tier, billing_period) * FinePerCent,
                discount_amount |-> 0,
                final_amount |-> BasePrice(tier, billing_period) * FinePerCent]]

\* The 'apply_coupon' branch (214-231): the locals after it
PageApplied(tier, billing_period, coupon, answer) ==
  IF answer.success
  THEN [applied_coupon |-> PageCouponId, coupon |-> coupon,
        amounts |-> [base_amount |-> answer.base_amount,
                     discount_amount |-> answer.discount_amount,
                     final_amount |-> answer.final_amount]]
  ELSE PageDefaults(tier, billing_period)

\* The page rendered from the locals (246-261)
Rendered(tier, billing_period, locals) ==
  [at |-> "page", tier |-> tier, billing_period |-> billing_period,
   applied_coupon |-> locals.applied_coupon, coupon |-> locals.coupon,
   amounts |-> locals.amounts]

PageInit ==
  /\ IsDB(EmptyDB)
  /\ now = 1
  /\ last = NoRequest
  /\ pc = [w \in Workers |-> [at |-> "idle"]]

\* GET of the checkout page for a tier and a billing period
PageOpen ==
  /\ last = NoRequest
  /\ pc[Visitor].at = "idle"
  /\ \E tier \in PageTiers, bp \in BillingPeriods :
       /\ pc' = [pc EXCEPT ![Visitor] =
                      Rendered(tier, PageBilling(tier, bp), PageDefaults(tier, bp))]
       /\ last' = [op |-> "checkout_get", result |-> "page"]
  /\ UNCHANGED <<subscriptions, coupons, payment_intents, webhook_events, task_queue,
                 handoffs, now>>

\* POST with 'apply_coupon' from the page
PageApplyCoupon ==
  /\ last = NoRequest
  /\ pc[Visitor].at = "page"
  /\ \E coupon \in PricingCoupons :
       LET tier == pc[Visitor].tier
           bp == pc[Visitor].billing_period
           answer == apply_coupon(coupon, BasePrice(tier, bp))
       IN /\ pc' = [pc EXCEPT ![Visitor] =
                      Rendered(tier, bp, PageApplied(tier, bp, coupon, answer))]
          /\ last' = [op |-> "checkout_apply_coupon",
                      result |-> IF answer.success THEN "applied" ELSE "rejected"]
  /\ UNCHANGED <<subscriptions, coupons, payment_intents, webhook_events, task_queue,
                 handoffs, now>>

\* POST with 'remove_coupon' from the page (233-237)
PageRemoveCoupon ==
  /\ last = NoRequest
  /\ pc[Visitor].at = "page"
  /\ pc[Visitor].applied_coupon # 0
  /\ pc' = [pc EXCEPT ![Visitor] =
              Rendered(pc[Visitor].tier, pc[Visitor].billing_period,
                       PageDefaults(pc[Visitor].tier, pc[Visitor].billing_period))]
  /\ last' = [op |-> "checkout_remove_coupon", result |-> "removed"]
  /\ UNCHANGED <<subscriptions, coupons, payment_intents, webhook_events, task_queue,
                 handoffs, now>>

\* POST with 'submit_payment' from the page (239-242): _process_checkout gets
\* the locals of this request, which no branch has set
PageSubmitPayment ==
  /\ last = NoRequest
  /\ pc[Visitor].at = "page"
  /\ Len(subscriptions) < MaxSubs
  /\ \E email \in Emails, session \in SessionOutcomes :
       LET tier == pc[Visitor].tier
           bp == pc[Visitor].billing_period
           locals == PageDefaults(tier, bp)
           r == _process_checkout(DB, email, bp, locals.applied_coupon, session)
       IN /\ SetDB(r.db)
          /\ last' = [op |-> "checkout_submit_payment", result |-> r.result,
                      page |-> pc[Visitor], amounts |-> locals.amounts]
  /\ pc' = [pc EXCEPT ![Visitor] = [at |-> "idle"]]
  /\ UNCHANGED now

PageNext ==
  \/ PageOpen
  \/ PageApplyCoupon
  \/ PageRemoveCoupon
  \/ PageSubmitPayment
  \/ Respond

PageSpec == PageInit /\ [][PageNext]_vars

\* ------------------------------------------------ activations of one Subscription
\* One Subscription with a history of its own (WithHistory); the gateway sends
\* further events about its session and payment intent, up to MaxActivationRows
\* events in all, create_subscription_for_customer may be called for it, and
\* time passes.

MaxActivationRows == 3   \* WebhookEvent rows, those of the history included

ActivationTypes ==
  {"checkout.session.completed", "payment_intent.succeeded",
   "payment_intent.payment_failed"}

ActivationInit ==
  \E h \in Histories :
    /\ IsDB([WithHistory(EmptyDB, 1, h) EXCEPT !.handoffs = [i \in DOMAIN @ |-> 0]])
    /\ now = 1
    /\ last = NoRequest
    /\ pc = [w \in Workers |-> [at |-> "idle"]]

\* The gateway delivers its next event about the Subscription
ActivationDeliver ==
  /\ last = NoRequest
  /\ Len(webhook_events) < MaxActivationRows
  /\ \E type \in ActivationTypes, env \in Envs :
       StripeWebhook("POST", "Stripe/", "valid", HistoryEvent(DB, 1, type), env)

ActivationNext ==
  \/ ActivationDeliver
  \/ CreateSubscriptionForCustomer
  \/ Tick
  \/ Respond

ActivationSpec == ActivationInit /\ [][ActivationNext]_vars

\* ------------------------------------------------------------ properties

\* The tables a handler can touch, apart from the WebhookEvent table
Effects == <<subscriptions, coupons, payment_intents, task_queue, handoffs>>

\* The request just answered was a webhook delivery that reached
\* handle_webhook_event
Delivered(l) == l.op = "stripe_webhook" /\ l.result # "not_called"

\* The WebhookEvent rows of event id `id` in the current state
RowsOf(id) == EventRows(DB, id)

\* C1: a call of handle_webhook_event for an event id whose row is already
\* processed (an earlier call returned success) returns success through the
\* already-processed check: no handler runs, and every Subscription, Coupon,
\* PaymentIntent shadow, the task queue and the hand-off count stay as they were.
C1_SecondCallIsNoOp ==
  [][(Delivered(last') /\ \E k \in RowsOf(last'.id) : webhook_events[k].processed)
       => /\ last'.result = "success"
          /\ ~last'.ran
          /\ Effects' = Effects
          /\ webhook_events' = webhook_events]_vars

\* An activating event was delivered again: answered 200 without a handler run
C1_Witness ==
  /\ Delivered(last) /\ last.result = "success" /\ ~last.ran
  /\ \E k \in RowsOf(last.id) :
       /\ webhook_events[k].processed
       /\ webhook_events[k].event_type = "checkout.session.completed"
       /\ webhook_events[k].subscription # 0
       /\ subscriptions[webhook_events[k].subscription].status = "active"
       /\ handoffs[webhook_events[k].subscription] = 1

\* C2: a webhook delivery changes a Subscription's status from s to t only if
\* s = t or t is in VALID_STATUS_TRANSITIONS[s].
C2_OnlyValidTransitions ==
  [][Delivered(last')
       => \A sid \in DOMAIN subscriptions :
            _validate_status_transition(subscriptions[sid].status,
                                        subscriptions'[sid].status)]_vars

\* C3: once a Subscription is expired or cancelled, no webhook delivery,
\* payment_cancel request or cancel_subscription request changes its status.
C3_TerminalStaysTerminal ==
  [][last'.op \in {"stripe_webhook", "payment_cancel", "cancel_subscription"}
       => \A sid \in DOMAIN subscriptions :
            subscriptions[sid].status \in {"expired", "cancelled"}
              => subscriptions'[sid].status = subscriptions[sid].status]_vars

\* C8: (a) a delivery that handle_webhook_event reports as failed leaves the
\* event's row unprocessed with its processing_error set; (b) a delivery of an
\* event whose row is unprocessed runs the handler, and when the call reports
\* success the row is marked processed.
C8_FailureIsRecordedAndRetried ==
  [][Delivered(last')
       => /\ last'.result = "failure"
               => \E k \in DOMAIN webhook_events' :
                     /\ webhook_events'[k].stripe_event_id = last'.id
                     /\ ~webhook_events'[k].processed
                     /\ webhook_events'[k].processing_error
          /\ (\E k \in RowsOf(last'.id) : ~webhook_events[k].processed)
               => /\ last'.ran
                  /\ last'.result = "success"
                       => \A k \in DOMAIN webhook_events' :
                            webhook_events'[k].stripe_event_id = last'.id
                              => webhook_events'[k].processed]_vars

\* C9: a POST whose signature is missing or fails verification is answered 400
\* and changes no table.
C9_BadSignatureRejected ==
  [][(last'.op = "stripe_webhook" /\ last'.method = "POST"
        /\ last'.sig \in {"missing", "invalid"})
       => /\ last'.code = 400
          /\ Effects' = Effects
          /\ webhook_events' = webhook_events]_vars

\* A POST from the gateway's user agent with an invalid signature was answered 400
C9_Witness ==
  /\ last.op = "stripe_webhook" /\ last.method = "POST" /\ last.ua = "Stripe/"
  /\ last.sig = "invalid" /\ last.code = 400

\* C10: for a POST with a valid signature the answer is 200 exactly when
\* handle_webhook_event reports success, and 500 when it reports failure or
\* raises; a request of another method is answered 405 and changes no table.
C10_AnswerFollowsOutcome ==
  [][last'.op = "stripe_webhook"
       => /\ (last'.method = "POST" /\ last'.sig = "valid")
               => /\ last'.code = 200 <=> last'.result = "success"
                  /\ last'.result \in {"failure", "raise"} => last'.code = 500
          /\ last'.method # "POST"
               => /\ last'.code = 405
                  /\ Effects' = Effects
                  /\ webhook_events' = webhook_events]_vars

\* A signed POST whose handler failed was answered 500
C10_Witness ==
  /\ Delivered(last) /\ last.method = "POST" /\ last.sig = "valid"
  /\ last.result = "failure" /\ last.code = 500

\* Every worker has returned
AllDone == \A w \in Workers : pc[w].at = "done"

\* C4: of two concurrent checkout submissions for one email that has no pending,
\* processing or active Subscription, at most one creates a Subscription that
\* is pending, processing or active, and the other is rejected.
C4_OneCheckoutWins ==
  /\ \A email \in Emails : Cardinality(ExistingLive(DB, email)) <= 1
  /\ AllDone => \E w \in Workers : pc[w].result # "redirect_to_stripe"

\* C5: when one event is delivered to two concurrent handle_webhook_event
\* calls, the effects of its handler are applied at most once: at most one call
\* runs the handler to success, and the provisioning request is handed off at
\* most once.
C5_HandledAtMostOnce ==
  /\ Cardinality({w \in Workers : pc[w].at = "done" /\ pc[w].ran
                                   /\ pc[w].result = "success"}) <= 1
  /\ \A sid \in DOMAIN handoffs : handoffs[sid] <= 1
  /\ Cardinality(task_queue) <= 1

\* C6: at most one WebhookEvent row exists for each stripe_event_id.
C6_OneRowPerEvent ==
  \A id \in EventIds : Cardinality(EventRows(DB, id)) <= 1

\* Two concurrent deliveries of one event have finished: one row exists, one
\* worker ran the handler, and the other reported failure and recorded an error
C6_Witness ==
  /\ AllDone
  /\ \E id \in EventIds : Cardinality(EventRows(DB, id)) = 1
  /\ \E w \in Workers : pc[w].ran
  /\ \E w \in Workers : ~pc[w].ran /\ pc[w].result = "failure"
  /\ \E k \in DOMAIN webhook_events : webhook_events[k].processing_error

\* The start, end and next billing dates of every Subscription
Dates ==
  [sid \in DOMAIN subscriptions |->
     <<subscriptions[sid].start_date, subscriptions[sid].end_date,
       subscriptions[sid].next_billing_date>>]

\* The processed checkout.session.completed rows that activated Subscription sid
ActivatedBy(sid) ==
  {k \in DOMAIN webhook_events :
     /\ webhook_events[k].event_type = "checkout.session.completed"
     /\ webhook_events[k].processed
     /\ webhook_events[k].subscription = sid}

\* C7: once a checkout.session.completed event has activated a Subscription, the
\* delivery of another checkout.session.completed event (another event id) for
\* the same session leaves the Subscription's dates as they are and hands off
\* no provisioning request; when it is reported as success its row is processed.
C7_SecondCompletedIsNoOp ==
  [][\A k \in DOMAIN webhook_events' :
       (/\ Delivered(last')
        /\ webhook_events'[k].stripe_event_id = last'.id
        /\ webhook_events'[k].event_type = "checkout.session.completed"
        /\ \E k1 \in ActivatedBy(webhook_events'[k].event_data.obj) : k1 # k)
       => /\ Dates' = Dates
          /\ handoffs' = handoffs
          /\ task_queue' = task_queue
          /\ last'.result = "success" => webhook_events'[k].processed]_vars

\* The handler of an event of type ty would activate the Subscription row sub
\* and make the provisioning call inline under the hand-off outcome `handoff`
InlineCallMade(ty, sub, handoff) ==
  /\ ~AlreadyActivated(sub)
  /\ sub.backend_integration_status \in {"not_started", "failed"}
  /\ \/ /\ ty = "checkout.session.completed"
        /\ _validate_status_transition(sub.status, "active")
        /\ handoff = "import_error"
     \/ /\ ty = "payment_intent.succeeded"
        /\ sub.status \in {"pending", "processing"}

\* C11: when the inline provisioning call of an activation handler returns
\* failure or raises, the delivery is still answered as success, the event row
\* is processed, the Subscription is active with its activation dates, and its
\* integration status is failed.
C11_ProvisioningFailureKeepsActivation ==
  [][LET sid == last'.obj IN
     (/\ Delivered(last') /\ last'.ran
      /\ last'.backend \in {"fail", "raise", "no_ids"}
      /\ sid \in DOMAIN subscriptions
      /\ InlineCallMade(last'.type, subscriptions[sid], last'.handoff))
     => /\ last'.result = "success" /\ last'.code = 200
        /\ \E k \in DOMAIN webhook_events' :
             /\ webhook_events'[k].stripe_event_id = last'.id
             /\ webhook_events'[k].processed
        /\ subscriptions'[sid].status = "active"
        /\ subscriptions'[sid].start_date = now
        /\ subscriptions'[sid].end_date = now + PeriodLength(subscriptions[sid].billing_period)
        /\ subscriptions'[sid].next_billing_date = subscriptions'[sid].end_date
        /\ subscriptions'[sid].backend_integration_status = "failed"]_vars

\* The call of create_organization that the step answers, if it is one
CreateCall ==
  /\ last = NoRequest
  /\ last' # NoRequest
  /\ last'.op = "create_organization"

\* C12: create_organization called on a Subscription whose integration status
\* is completed makes no backend request, returns success with the stored
\* organization id and tenant slug, and leaves the Subscription unchanged.
C12_CompletedIsReturnedAsStored ==
  [][(CreateCall /\ subscriptions[last'.id].backend_integration_status = "completed")
       => /\ ~last'.requested
          /\ handoffs' = handoffs
          /\ last'.ret
          /\ last'.organization_id = subscriptions[last'.id].backend_organization_id
          /\ last'.tenant_slug = subscriptions[last'.id].backend_tenant_slug
          /\ subscriptions' = subscriptions]_vars

\* create_organization has answered for a completed Subscription that holds an
\* organization id, while the backend would have failed the request
C12_Witness ==
  /\ last # NoRequest
  /\ last.op = "create_organization"
  /\ ~last.requested
  /\ last.answer = "fail"
  /\ last.organization_id # 0
  /\ subscriptions[last.id].backend_integration_status = "completed"

\* C13: create_organization on a Subscription whose integration status is not
\* completed: when the backend answers 200/201 (ok, raise, no_ids) the returned
\* organization id and tenant slug are stored and the integration status
\* becomes completed; on any other answer (fail) the integration status becomes
\* failed, the error is recorded on the Subscription and failure is returned;
\* in both cases Subscription.status is unchanged.
C13_OutcomeIsStored ==
  [][(CreateCall /\ subscriptions[last'.id].backend_integration_status # "completed")
       => LET old == subscriptions[last'.id]
              new == subscriptions'[last'.id]
          IN /\ new.status = old.status
             /\ last'.answer # "fail"
                  => /\ last'.ret
                     /\ new.backend_integration_status = "completed"
                     /\ new.backend_organization_id = last'.organization_id
                     /\ new.backend_tenant_slug = last'.tenant_slug
                     /\ new.backend_organization_id # 0
             /\ last'.answer = "fail"
                  => /\ ~last'.ret
                     /\ new.backend_integration_status = "failed"
                     /\ new.backend_integration_error]_vars

\* The bulk retry that the step answers, if it is one
BulkRetryCall ==
  /\ last = NoRequest
  /\ last' # NoRequest
  /\ last'.op = "retry_failed_integrations"

\* C14: when the backend fails an organization-create attempt for an active
\* Subscription, the Subscription stays active with integration status failed;
\* a bulk retry re-invokes creation for exactly the Subscriptions that are
\* active with integration status failed, moves each to completed when the
\* backend succeeds and back to failed when it does not, and reports counts
\* with successful + failed + skipped equal to the number scanned.
C14_BulkRetrySettlesEachFailedRow ==
  [][/\ (/\ CreateCall
         /\ subscriptions[last'.id].status = "active"
         /\ subscriptions[last'.id].backend_integration_status # "completed"
         /\ last'.answer = "fail")
          => /\ subscriptions'[last'.id].status = "active"
             /\ subscriptions'[last'.id].backend_integration_status = "failed"
     /\ BulkRetryCall
          => LET scanned == {i \in DOMAIN subscriptions :
                               /\ subscriptions[i].status = "active"
                               /\ subscriptions[i].backend_integration_status = "failed"}
                 results == last'.results
             IN /\ \A i \in DOMAIN subscriptions :
                     IF i \in scanned
                     THEN /\ handoffs'[i] = handoffs[i] + 1
                          /\ subscriptions'[i].status = "active"
                          /\ subscriptions'[i].backend_integration_status =
                               IF last'.answers[i] = "ok" THEN "completed" ELSE "failed"
                     ELSE /\ handoffs'[i] = handoffs[i]
                          /\ subscriptions'[i] = subscriptions[i]
                /\ results.successful + results.failed + results.skipped
                     = Cardinality(scanned)]_vars

\* The task that was dispatched has run for the last time, all its runs having
\* failed
TaskGaveUp ==
  /\ task_queue = {}
  /\ last.op = "create_backend_organization_task"
  /\ last.outcome = "gave_up"

\* C15: one dispatch of create_backend_organization_task makes at most 1 + 5
\* organization-create attempts and then stops: the queue becomes empty for
\* good; when every run failed, the Subscription's integration status is left
\* failed, not pending or processing.
C15_TaskStopsAfterFiveRetries ==
  /\ [](\A i \in DOMAIN handoffs : handoffs[i] <= 1 + max_retries)
  /\ [](\A task \in task_queue : task.retries <= max_retries)
  /\ [](TaskGaveUp => subscriptions[last.id].backend_integration_status = "failed")
  /\ <>[](task_queue = {})

\* The task gave up after six attempts, the last of which raised inside
\* create_organization
C15_Witness ==
  /\ TaskGaveUp
  /\ handoffs[last.id] = 1 + max_retries
  /\ last.retries = max_retries
  /\ last.answer = "raise"
  /\ subscriptions[last.id].backend_integration_status = "failed"

\* The request that the step answers is of kind op
Answers(op) ==
  /\ last = NoRequest
  /\ last' # NoRequest
  /\ last'.op = op

HasAmounts ==
  last.op \in {"calculate_pricing", "apply_coupon", "validate_coupon", "submit_payment"}

\* C19: for every tier price, billing period and coupon (percentage or fixed,
\* any discount value, a percentage above 100 included), the amounts stored on a
\* Subscription and those returned by the coupon endpoints satisfy
\* final_amount = max(base_amount - discount_amount, 0), with base_amount,
\* discount_amount and final_amount all >= 0.
C19_FinalAmountIsFlooredDifference ==
  HasAmounts
    => /\ last.amounts.base_amount >= 0
       /\ last.amounts.discount_amount >= 0
       /\ last.amounts.final_amount >= 0
       /\ last.amounts.final_amount
            = Max(last.amounts.base_amount - last.amounts.discount_amount, 0)

C21_IsValidByCause ==
  last.op = "is_valid"
    => LET c == last.coupon
           t == last.t
       IN last.answer =
            IF ~c.is_active
            THEN [valid |-> FALSE, message |-> "Coupon is not active"]
            ELSE IF t < c.valid_from
            THEN [valid |-> FALSE, message |-> "Coupon is not yet valid"]
            ELSE IF c.valid_until # 0 /\ t > c.valid_until
            THEN [valid |-> FALSE, message |-> "Coupon has expired"]
            ELSE IF c.max_uses # Null /\ c.used_count >= c.max_uses
            THEN [valid |-> FALSE, message |-> "Coupon usage limit exceeded"]
            ELSE [valid |-> TRUE, message |-> "Valid"]

\* C22: a coupon whose minimum_amount exceeds the base amount is never applied:
\* the checkout page, apply_coupon_ajax and validate_coupon reject it and
\* Subscription.calculate_pricing gives discount 0, although the coupon is valid
\* and applies to the tier.
C22_BelowMinimumIsNotApplied ==
  (/\ HasAmounts
   /\ last.coupon # NoCoupon
   /\ last.coupon.usable
   /\ last.coupon.minimum_amount * FinePerCent > last.amounts.base_amount)
    => /\ last.amounts.discount_amount = 0
       /\ last.amounts.final_amount = last.amounts.base_amount
       /\ last.op \in {"apply_coupon", "validate_coupon"} => ~last.amounts.success

\* validate_coupon has rejected a valid 20% coupon with a minimum of 50.00 for a
\* base price of 25.00
C22_Witness ==
  /\ last.op = "validate_coupon"
  /\ last.coupon.usable
  /\ last.coupon.discount_type = "percentage"
  /\ last.coupon.discount_value = 2000
  /\ last.coupon.minimum_amount = 5000
  /\ last.amounts.base_amount = 2500 * FinePerCent
  /\ ~last.amounts.success
  /\ last.amounts.discount_amount = 0

\* C23: every _process_checkout call that returns leaves the Subscription it
\* created in status processing or failed, or leaves no new Subscription row;
\* it never leaves that Subscription pending, whatever step failed.
C23_CheckoutNeverLeavesPending ==
  [][(last = NoRequest /\ last'.op = "checkout")
       => IF last'.result \in {"redirect_to_stripe", "payment_failed"}
          THEN /\ Len(subscriptions') = Len(subscriptions) + 1
               /\ subscriptions'[Len(subscriptions')].status =
                    IF last'.result = "redirect_to_stripe" THEN "processing" ELSE "failed"
          ELSE subscriptions' = subscriptions]_vars

\* A checkout has ended with an unexpected exception and left no row
C23_Witness ==
  /\ last.op = "checkout"
  /\ last.result = "unexpected_error"
  /\ subscriptions = <<>>

\* C24: a delivered event whose type is none of the eight handled types is
\* marked processed with a processed timestamp and answered as success, and
\* changes no Subscription, PaymentIntent or Coupon (nor queues any task).
C24_UnhandledTypeOnlyMarked ==
  [][(last = NoRequest /\ Delivered(last') /\ last'.ran
        /\ last'.type \notin HandledTypes)
       => /\ last'.result = "success"
          /\ last'.code = 200
          /\ \E k \in DOMAIN webhook_events' :
               /\ webhook_events'[k].stripe_event_id = last'.id
               /\ webhook_events'[k].processed
               /\ webhook_events'[k].processed_at = now
          /\ subscriptions' = subscriptions
          /\ payment_intents' = payment_intents
          /\ coupons' = coupons
          /\ task_queue' = task_queue
          /\ handoffs' = handoffs]_vars

\* An event of an unhandled type has been delivered while a Subscription exists
C24_Witness ==
  /\ Delivered(last)
  /\ last.ran
  /\ last.type = "customer.subscription.created"
  /\ subscriptions # <<>>
  /\ \E k \in DOMAIN webhook_events : webhook_events[k].processed

\* C25: no checkout, webhook, cancellation or provisioning step deletes a
\* Subscription row: every id of before the step is an id after it and names
\* the same row (same email), and a cancellation that takes effect
\* (payment_cancel on a pending or processing row, cancel_subscription answered
\* 200, a customer.subscription.deleted event handled) leaves the existing row
\* with status cancelled.
C25_RowsAreNeverDeleted ==
  [][/\ DOMAIN subscriptions \subseteq DOMAIN subscriptions'
     /\ \A sid \in DOMAIN subscriptions :
          /\ subscriptions'[sid].email = subscriptions[sid].email
          /\ (/\ last = NoRequest
              /\ last'.id = sid
              /\ \/ /\ last'.op = "payment_cancel"
                    /\ subscriptions[sid].status \in {"pending", "processing"}
                 \/ /\ last'.op = "cancel_subscription"
                    /\ last'.code = 200)
             => subscriptions'[sid].status = "cancelled"
          /\ (/\ last = NoRequest
              /\ Delivered(last')
              /\ last'.ran
              /\ last'.result = "success"
              /\ last'.type = "customer.subscription.deleted"
              /\ subscriptions[sid].stripe_subscription_id = last'.obj)
             => subscriptions'[sid].status = "cancelled"]_vars

\* A row that was cancelled by payment_cancel is still in the table
C25_Witness ==
  /\ last.op = "payment_cancel"
  /\ last.id \in DOMAIN subscriptions
  /\ subscriptions[last.id].status = "cancelled"
  /\ subscriptions[last.id].end_date = 0

\* C26: a checkout.session.expired event changes the status of the linked
\* Subscription (to expired) only when that status is pending or processing;
\* in any other status (active, cancelled, failed, ...) the status is left
\* unchanged.
C26_ExpiredOnlyFromPendingOrProcessing ==
  [][(/\ last = NoRequest
      /\ Delivered(last')
      /\ last'.ran
      /\ last'.type = "checkout.session.expired"
      /\ last'.obj \in DOMAIN subscriptions)
       => LET before == subscriptions[last'.obj].status
              after == subscriptions'[last'.obj].status
          IN IF before \in {"pending", "processing"} /\ last'.result = "success"
             THEN after = "expired"
             ELSE after = before]_vars

\* C27: the line items create_checkout_session builds for a Subscription sum to
\* its final_amount in cents; with discount_amount > 0 they are the base line
\* item (base_amount) and one negative line item equal to the discount, so the
\* discount is counted once.
C27_LineItemsSumToFinalAmount ==
  last.op = "create_checkout_session"
    => /\ SumOf(last.line_items) = Cents(last.amounts.final_amount)
       /\ last.amounts.discount_amount > 0
            => last.line_items = <<Cents(last.amounts.base_amount),
                                   0 - Cents(last.amounts.discount_amount)>>

\* C28: in every reachable state each email has at most one Subscription whose
\* status is pending, processing or active.
C28_OneLiveSubscriptionPerEmail ==
  \A email \in Emails : Cardinality(ExistingLive(DB, email)) <= 1

\* The fields of a Subscription row that webhook handlers and cancellations
\* own: a provisioning run is to leave them alone
PaymentFields(row) ==
  <<row.status, row.start_date, row.end_date, row.next_billing_date>>

\* C29: the save of a provisioning run (the background task,
\* retry_organization_creation) changes only the integration fields of the
\* Subscription: status, start_date, end_date and next_billing_date keep the
\* values committed just before the save, whatever was committed while the run
\* was in progress.
C29_RunKeepsPaymentFields ==
  [][(last = NoRequest /\ last'.op = "provisioning_run")
       => PaymentFields(subscriptions'[last'.id])
            = PaymentFields(subscriptions[last'.id])]_vars

\* C30: when a webhook handler has activated a Subscription, a payment_cancel
\* that overlaps with it does what it does after the activation in a serial
\* order, nothing: it never writes status cancelled over the committed status
\* active, nor decrements the coupon, on the basis of a status it read before
\* the activation was committed.
C30_CancelSeesCommittedStatus ==
  [][(/\ last = NoRequest
      /\ last'.op = "payment_cancel"
      /\ subscriptions[last'.id].status = "active")
       => /\ subscriptions' = subscriptions
          /\ coupons' = coupons]_vars

\* C31: a coupon applied on the checkout page is carried into the payment
\* submission that follows: the Subscription _process_checkout creates has
\* coupon_used set to that coupon, discount_amount equal to the discount the
\* page showed and final_amount = max(base_amount - discount_amount, 0).
C31_AppliedCouponIsCarried ==
  (/\ last.op = "checkout_submit_payment"
   /\ last.result = "redirect_to_stripe"
   /\ last.page.applied_coupon # 0)
    => /\ subscriptions[Len(subscriptions)].coupon_used = last.page.applied_coupon
       /\ last.amounts.discount_amount = last.page.amounts.discount_amount
       /\ last.amounts.final_amount =
            Max(last.amounts.base_amount - last.amounts.discount_amount, 0)
       /\ last.amounts.final_amount = last.page.amounts.final_amount

\* C32: a call of handle_webhook_event that found the WebhookEvent row of its
\* event locked by, or being created by, a concurrent call (so that it did not
\* run the type-specific handler itself) returns success: it never returns
\* failure and never raises for that reason.
C32_LockedRowIsAcknowledged ==
  [][\A w \in Workers :
       (/\ pc[w].at \in {"error_get", "error_save"}
        /\ pc'[w].at = "done"
        /\ ~pc'[w].ran)
         => pc'[w].result = "success"]_vars

\* C33: when handing the provisioning task off fails (the task module cannot
\* be imported, or the enqueue call raises), a checkout.session.completed event
\* for a Subscription that can be activated still activates it, is marked
\* processed and is answered as success: the activation is not rolled back.
C33_HandOffFailureKeepsActivation ==
  [][(/\ last = NoRequest
      /\ Delivered(last')
      /\ last'.ran
      /\ last'.type = "checkout.session.completed"
      /\ last'.handoff \in {"import_error", "enqueue_error"}
      /\ last'.obj \in DOMAIN subscriptions
      /\ subscriptions[last'.obj].status # "active"
      /\ _validate_status_transition(subscriptions[last'.obj].status, "active"))
       => /\ last'.result = "success"
          /\ subscriptions'[last'.obj].status = "active"
          /\ \E k \in DOMAIN webhook_events' :
               /\ webhook_events'[k].stripe_event_id = last'.id
               /\ webhook_events'[k].processed]_vars

\* C34: when a checkout.session.completed or payment_intent.succeeded event is
\* handled for a Subscription, provisioning is handed off (a task queued or a
\* request sent) only if the integration status was not_started or failed, and
\* the status has left not_started by then (pending once the task is queued);
\* when the integration status was pending or completed nothing is handed off
\* and the integration status is unchanged.
C34_HandOffOnlyFromNotStartedOrFailed ==
  [][(/\ last = NoRequest
      /\ Delivered(last')
      /\ last'.ran
      /\ last'.type \in {"checkout.session.completed", "payment_intent.succeeded"}
      /\ last'.obj \in DOMAIN subscriptions)
       => LET before == subscriptions[last'.obj].backend_integration_status
              after == subscriptions'[last'.obj].backend_integration_status
              handed == handoffs' # handoffs \/ task_queue' # task_queue
          IN /\ handed => before \in {"not_started", "failed"}
             /\ (handed /\ last'.result = "success")
                  => after \in {"pending", "completed", "failed"}
             /\ task_queue' # task_queue => after = "pending"
             /\ before \notin {"not_started", "failed"}
                  => ~handed /\ after = before]_vars

\* An event has activated a Subscription whose integration status was pending
\* already: the task module could not be imported and the backend would have
\* answered, yet no request was made and the status is still pending
C34_Witness ==
  /\ Delivered(last)
  /\ last.ran
  /\ last.result = "success"
  /\ last.type \in {"checkout.session.completed", "payment_intent.succeeded"}
  /\ last.handoff = "import_error"
  /\ last.backend = "ok"
  /\ subscriptions[1].status = "active"
  /\ subscriptions[1].backend_integration_status = "pending"
  /\ \E k \in DOMAIN webhook_events :
       /\ webhook_events[k].stripe_event_id = last.id
       /\ webhook_events[k].processed
       /\ webhook_events[k].subscription = 1

\* C35: once the integration status of a Subscription is completed, no
\* operation sends another organization-create request for it, and its
\* integration status is never reset to pending or failed.
C35_ProvisionedAtMostOnce ==
  [][\A i \in DOMAIN subscriptions :
       subscriptions[i].backend_integration_status = "completed"
         => /\ handoffs'[i] = handoffs[i]
            /\ subscriptions'[i].backend_integration_status \notin {"pending", "failed"}]_vars

\* C36: when a checkout.session.completed or payment_intent.succeeded event
\* activates a Subscription, start_date is the handling time T, and end_date and
\* next_billing_date are both T + 1 year for annual billing and T + 1 month
\* otherwise.
C36_DatesFromOneTimestamp ==
  [][\A i \in DOMAIN subscriptions :
       (/\ last = NoRequest
        /\ Delivered(last')
        /\ last'.type \in {"checkout.session.completed", "payment_intent.succeeded"}
        /\ subscriptions'[i].status = "active"
        /\ \/ subscriptions[i].status # "active"
           \/ subscriptions'[i].start_date # subscriptions[i].start_date)
         => /\ subscriptions'[i].start_date = now
            /\ subscriptions'[i].end_date
                 = now + PeriodLength(subscriptions[i].billing_period)
            /\ subscriptions'[i].next_billing_date = subscriptions'[i].end_date]_vars

\* A payment_intent.succeeded event handled at time 2 has activated an annual
\* Subscription: it runs from 2 to 14
C36_Witness ==
  /\ Delivered(last)
  /\ last.type = "payment_intent.succeeded"
  /\ last.result = "success"
  /\ now = 2
  /\ \E i \in DOMAIN subscriptions :
       /\ subscriptions[i].billing_period = "annual"
       /\ subscriptions[i].status = "active"
       /\ subscriptions[i].start_date = 2
       /\ subscriptions[i].end_date = 2 + PeriodLength("annual")
       /\ subscriptions[i].next_billing_date = 2 + PeriodLength("annual")

\* C37: every Subscription whose status is active has its start_date set,
\* whichever event made it active.
C37_ActiveHasStartDate ==
  \A i \in DOMAIN subscriptions :
    subscriptions[i].status = "active" => subscriptions[i].start_date # 0

\* C38: the Checkout Session created for a Subscription carries that
\* Subscription's id, and the handling of a checkout.session.completed event
\* changes no Subscription but the one its session names: every other row is as
\* before, and when the id names no Subscription no row changes and an event
\* answered with success is marked processed.
C38_CompletedChangesItsSubscriptionOnly ==
  [][(/\ last = NoRequest
      /\ Delivered(last')
      /\ last'.type = "checkout.session.completed")
       => /\ \A j \in DOMAIN payment_intents :
               payment_intents[j].stripe_payment_intent_id
                 = <<"cs", payment_intents[j].subscription>>
          /\ DOMAIN subscriptions' = DOMAIN subscriptions
          /\ \A i \in DOMAIN subscriptions :
               i # last'.obj => subscriptions'[i] = subscriptions[i]
          /\ last'.obj \notin DOMAIN subscriptions
               => /\ subscriptions' = subscriptions
                  /\ handoffs' = handoffs
                  /\ last'.result = "success"
                       => \A k \in EventRows(DB', last'.id) : webhook_events'[k].processed]_vars

\* The visitor cancelled a first checkout and went through a second one; the
\* completed event of the second session has been handled: its Subscription is
\* active and the first is still cancelled
C38_Witness ==
  /\ Delivered(last)
  /\ last.ran
  /\ last.type = "checkout.session.completed"
  /\ last.obj = 2
  /\ Len(subscriptions) = 2
  /\ subscriptions[1].status = "cancelled"
  /\ subscriptions[2].status = "active"

\* C39: a customer.subscription.updated event handled for the Subscription with
\* its gateway subscription id sets the local status to active for the gateway
\* status active, cancelled for canceled, failed for past_due and processing
\* for incomplete, and leaves it as it was for any other gateway status; a
\* customer.subscription.deleted event sets status cancelled and end_date to the
\* handling time.  No other field of the Subscription changes.
C39_GatewayStatusIsMapped ==
  [][\A i \in DOMAIN subscriptions : \A k \in DOMAIN webhook_events' :
       (/\ last = NoRequest
        /\ Delivered(last')
        /\ last'.ran
        /\ last'.result = "success"
        /\ webhook_events'[k].stripe_event_id = last'.id
        /\ SubsByStripeSub(DB, last'.obj) = {i})
         => LET before == subscriptions[i]
                after == subscriptions'[i]
                gateway == webhook_events'[k].event_data.stripe_status
            IN /\ last'.type = "customer.subscription.updated"
                    => /\ gateway = "active" => after.status = "active"
                       /\ gateway = "canceled" => after.status = "cancelled"
                       /\ gateway = "past_due" => after.status = "failed"
                       /\ gateway = "incomplete" => after.status = "processing"
                       /\ gateway \notin {"active", "canceled", "past_due", "incomplete"}
                            => after.status = before.status
                       /\ after = [before EXCEPT !.status = after.status]
               /\ last'.type = "customer.subscription.deleted"
                    => after = [before EXCEPT !.status = "cancelled",
                                              !.end_date = now]]_vars

\* An update to the gateway status trialing has been handled for a Subscription
\* in processing, which is still processing
C39_Witness ==
  /\ Delivered(last)
  /\ last.ran
  /\ last.result = "success"
  /\ last.type = "customer.subscription.updated"
  /\ SubsByStripeSub(DB, last.obj) # {}
  /\ \E k \in DOMAIN webhook_events :
       /\ webhook_events[k].stripe_event_id = last.id
       /\ webhook_events[k].event_data.stripe_status = "trialing"
       /\ webhook_events[k].processed
       /\ webhook_events[k].subscription = last.obj
       /\ subscriptions[last.obj].status = "processing"

\* C40: handle_subscription_cancellation sends the cancel request exactly when
\* the Subscription has a backend_organization_id; without one the Subscription
\* stays as it is and the call reports no error.
C40_MissingOrganizationIsNoError ==
  [][(last = NoRequest /\ last'.op = "handle_subscription_cancellation")
       => LET sub == subscriptions[last'.id]
          IN /\ last'.requested <=> sub.backend_organization_id # 0
             /\ sub.backend_organization_id = 0
                  => /\ subscriptions' = subscriptions
                     /\ last'.error = "-"]_vars

====
